---- MODULE Spec2Model ----
(***************************************************************************)
(* Model of rsg's download orchestrator (DownloadContext.downloadArchives).*)
(* One loop alternates a planning stage, which initiates retrieval jobs of *)
(* archive byte ranges while the retrieval budget allows, and a download   *)
(* stage, which streams one window of speedInBytesBySec x 300 bytes of the *)
(* initiated parts, in order, into per-archive staging files.              *)
(*                                                                         *)
(* File contents are sequences of pieces [src, lo, hi]: bytes lo..hi of    *)
(* the archive, src telling whether they were read from a job ("job") or   *)
(* were already in the staging file at startup ("staged").                 *)
(***************************************************************************)
EXTENDS Integers, Sequences, FiniteSets, TLC

\* ---------------------------------------------------------------- constants
S_1MB == 1048576
DownloadWindowSec == 300
RetrievalLatencySec == 14400
GlacierZeroSizeFile == "GlacierZeroSizeFile"

\* ------------------------------------------------------------------- bounds
MaxRows == 2
MaxWindows == 50
MaxStartupFiles == 1
MaxRuns == 2

ArchiveIds == {"archiveId1", "archiveId2"}
ArchiveSizes ==
    [archiveId1 |-> {5, 1048581, 4194304},
     archiveId2 |-> {1058576, 2097152}]
StagingLengths == {3, S_1MB, S_1MB + 3}

\* ------------------------------------------------------------------ helpers
Min(a, b) == IF a <= b THEN a ELSE b
Max(a, b) == IF a >= b THEN a ELSE b

RECURSIVE SetMax(_)
SetMax(S) ==
    IF S = {} THEN 0
    ELSE LET x == CHOOSE y \in S : TRUE IN Max(x, SetMax(S \ {x}))

PieceLen(p) == p.hi - p.lo + 1

RECURSIVE ContentLen(_)
ContentLen(c) ==
    IF c = <<>> THEN 0 ELSE PieceLen(Head(c)) + ContentLen(Tail(c))

\* os.Truncate / io.CopyN: the first n bytes of a content
RECURSIVE Truncate(_, _)
Truncate(c, n) ==
    IF c = <<>> \/ n <= 0 THEN <<>>
    ELSE IF PieceLen(Head(c)) <= n
         THEN <<Head(c)>> \o Truncate(Tail(c), n - PieceLen(Head(c)))
         ELSE <<[Head(c) EXCEPT !.hi = Head(c).lo + n - 1]>>

\* file.Write at the end of the file: append, merging with an adjacent piece
\* of the same origin
AppendPiece(c, p) ==
    IF c # <<>> /\ c[Len(c)].src = p.src /\ c[Len(c)].hi + 1 = p.lo
    THEN [c EXCEPT ![Len(c)].hi = p.hi]
    ELSE Append(c, p)

\* the archive's content: what GetJobOutput serves
RECURSIVE IsArchiveBytes(_, _)
IsArchiveBytes(c, from) ==
    \/ c = <<>>
    \/ /\ Head(c).lo = from
       /\ Head(c).hi >= Head(c).lo
       /\ IsArchiveBytes(Tail(c), Head(c).hi + 1)

\* content c is exactly the first n bytes of the archive
IsArchivePrefix(c, n) == ContentLen(c) = n /\ IsArchiveBytes(c, 0)

\* -------------------------------------------------------------------- state
VARIABLES
    mapping,                          \* table file_info_tb of the mapping database
    filters,                          \* restorationContext.Options.Filters
    output,                           \* the lines printed
    file_info_tb,                     \* the filtered rows, ordered by key
    speedInBytesBySec,
    archivesRetrievalMaxSize,
    archivePartRetrievalListMaxSize,
    archivesRetrievalSize,            \* bytes initiated and not yet downloaded
    archivePartRetrieveList,          \* parts initiated and not yet downloaded
    archiveRows,                      \* cursor: index of the next archive
    archiveRetrieve,                  \* the archive being planned, or NoArchive
    staging,                          \* <dest>/<archiveId>
    dest,                             \* <dest>/<shareName>/<basePath>, by row
    jobCache,                         \* retrieval jobs known to awsutils
    unavailable,                      \* archives InitiateJob did not find
    initiateJobCalls,                 \* log of InitiateJob calls
    describeJobCalls,                 \* archive and job ids DescribeJob was called for
    getJobOutputCalls,                \* log of GetJobOutput calls
    emitted,                          \* log of the parts the planner emitted
    chunks,                           \* log of the chunks written to staging
    stagingAtStartup,                 \* length of each staging file at startup
    windowLeft,                       \* bytes left in the download window
    previousRun,                      \* what the runs before this one left
    staleJobs,                        \* job ids the service no longer knows
    pc,
    mappingEnv,                       \* what DownloadMappingArchive starts from
    regionVaultCache,                 \* restorationContext.RegionVaultCache
    mappingFile,                      \* <cache>/mapping.sqllite
    glacierCalls,                     \* log of the calls of the mapping phase
    mpc,                              \* where DownloadMappingArchive is
    VerboseFlag,
    OptionalInfoFlag,
    writers,                          \* the five writers of package outputs
    written,                          \* what each writer has received
    printCalls,                       \* log of the calls of outputs.print
    opc,                              \* package outputs: "running" or "panic"
    synologyCoupleVaults,
    synologyCoupleVaultToUse,         \* index in the list, 0 for nil
    queries,                          \* what the user has entered
    selected,                         \* what selectRegionVault... returned
    spc                               \* where selectRegionVault... is

vars ==
    <<mapping, filters, output, file_info_tb, speedInBytesBySec, archivesRetrievalMaxSize,
      archivePartRetrievalListMaxSize, archivesRetrievalSize,
      archivePartRetrieveList, archiveRows, archiveRetrieve, staging, dest,
      jobCache, unavailable, initiateJobCalls, describeJobCalls,
      getJobOutputCalls, emitted, chunks, stagingAtStartup, windowLeft,
      previousRun, staleJobs, pc, mappingEnv, regionVaultCache, mappingFile,
      glacierCalls, mpc, VerboseFlag, OptionalInfoFlag, writers, written,
      printCalls, opc, synologyCoupleVaults, synologyCoupleVaultToUse, queries,
      selected, spc>>

outputsVars ==
    <<VerboseFlag, OptionalInfoFlag, writers, written, printCalls, opc>>

selectVars ==
    <<synologyCoupleVaults, synologyCoupleVaultToUse, queries, selected, spc>>

ctxVars ==
    <<mapping, filters, output, file_info_tb, speedInBytesBySec, archivesRetrievalMaxSize,
      archivePartRetrievalListMaxSize, stagingAtStartup, previousRun,
      staleJobs, mappingEnv, regionVaultCache, mappingFile, glacierCalls, mpc,
      outputsVars, selectVars>>

mappingVars == <<mappingEnv, regionVaultCache, mappingFile, glacierCalls, mpc>>

\* the variables of the orchestrator
downloadVarsOfRun ==
    <<mapping, filters, file_info_tb, speedInBytesBySec,
      archivesRetrievalMaxSize, archivePartRetrievalListMaxSize,
      archivesRetrievalSize, archivePartRetrieveList, archiveRows,
      archiveRetrieve, staging, dest, jobCache, unavailable, initiateJobCalls,
      describeJobCalls, getJobOutputCalls, emitted, chunks, stagingAtStartup,
      windowLeft, previousRun, staleJobs, pc>>

\* what the mapping phase leaves alone
downloadVars == <<downloadVarsOfRun, outputsVars, selectVars>>

NoArchive == [archiveId |-> "", size |-> 0, nextByteIndexToRetrieve |-> 0]
NoFile == [exists |-> FALSE, content |-> <<>>]
NoMappingArchive == [ArchiveId |-> "", Size |-> 0]
EmptyCache ==
    [inventoryJobId |-> "", mappingArchive |-> NoMappingArchive,
     retrievalJobId |-> ""]

\* the mapping archive has been downloaded: the orchestrator can run
MappingDownloaded ==
    /\ mappingEnv = [cache |-> EmptyCache, fileExists |-> TRUE,
                     answer |-> "", archiveList |-> <<>>]
    /\ regionVaultCache = EmptyCache
    /\ mappingFile = [exists |-> TRUE, content |-> "mapping"]
    /\ glacierCalls = <<>>
    /\ mpc = "done"

\* the levels of package outputs
Verbose == 0
OptionalInfo == 1
Info == 2
Warning == 3
Error == 4
Levels == {Verbose, OptionalInfo, Info, Warning, Error}

WriterIds == {"os.Stdout", "os.Stderr", "buffer", "verbose.log", "optional.log"}
NilWriter == "nil"
NoWriters ==
    [verboseWriter |-> NilWriter, optionalInfoWriter |-> NilWriter,
     infoWriter |-> NilWriter, warningWriter |-> NilWriter,
     errorWriter |-> NilWriter]

\* InitOutputs: each writer variable takes the parameter of its level
InitOutputsWith(pVerboseWriter, pOptionalInfoWriter, pInfoWriter, pWarningWriter, pErrorWriter) ==
    [verboseWriter |-> pVerboseWriter,
     optionalInfoWriter |-> pOptionalInfoWriter,
     infoWriter |-> pInfoWriter, warningWriter |-> pWarningWriter,
     errorWriter |-> pErrorWriter]

\* InitDefaultOutputs: standard output, but standard error for errors
DefaultWriters ==
    InitOutputsWith("os.Stdout", "os.Stdout", "os.Stdout", "os.Stdout",
                    "os.Stderr")

NothingWritten == [w \in WriterIds |-> <<>>]

\* the vault has been selected and package outputs is set up: the state the
\* mapping phase and the orchestrator start from
VaultSelected ==
    /\ VerboseFlag = FALSE
    /\ OptionalInfoFlag = TRUE
    /\ writers = DefaultWriters
    /\ written = NothingWritten
    /\ printCalls = <<>>
    /\ opc = "running"
    /\ synologyCoupleVaults = <<[Region |-> "region", Name |-> "vault"]>>
    /\ synologyCoupleVaultToUse = 1
    /\ queries = <<>>
    /\ selected = <<"region", "vault">>
    /\ spc = "done"

NoRun ==
    [runs |-> 0, initiateJobCalls |-> <<>>, dest |-> <<>>, answers |-> {},
     stagingAtStartup |-> <<>>, jobsAtStartup |-> {}]
AllArchiveIds == ArchiveIds \cup {GlacierZeroSizeFile}

\* ---------------------------------------------------------- the mapping rows
RowChoices ==
    {[archiveId |-> a, fileSize |-> s] : a \in {"archiveId1"}, s \in ArchiveSizes.archiveId1}
    \cup {[archiveId |-> a, fileSize |-> s] : a \in {"archiveId2"}, s \in ArchiveSizes.archiveId2}
    \cup {[archiveId |-> GlacierZeroSizeFile, fileSize |-> 0]}

RowsOf(rows, a) == {i \in 1..Len(rows) : rows[i].archiveId = a}

\* the size of an archive: the largest fileSize of the rows that share it
DeclaredSizeIn(rows, a) == SetMax({rows[i].fileSize : i \in RowsOf(rows, a)})
DeclaredSize(a) == DeclaredSizeIn(file_info_tb, a)

\* mutant: an archive is planned once for each row that targets it
ArchiveOrderOf_PerRow(rows, seen) == [i \in 1..Len(rows) |-> rows[i].archiveId]

\* the archives of the rows, each once, in the order of their first row
RECURSIVE ArchiveOrderOf(_, _)
ArchiveOrderOf(rows, seen) ==
    IF rows = <<>> THEN <<>>
    ELSE IF Head(rows).archiveId \in seen
         THEN ArchiveOrderOf(Tail(rows), seen)
         ELSE <<Head(rows).archiveId>>
              \o ArchiveOrderOf(Tail(rows), seen \cup {Head(rows).archiveId})
ArchiveOrder == ArchiveOrderOf(file_info_tb, {})
HasArchiveRows == archiveRows <= Len(ArchiveOrder)

RECURSIVE SumSizes(_, _)
SumSizes(rows, S) ==
    IF S = {} THEN 0
    ELSE LET a == CHOOSE x \in S : TRUE
         IN DeclaredSizeIn(rows, a) + SumSizes(rows, S \ {a})
\* ---------------------------------------------------------------- filtering
\* pattern p from index i on matches string s from index j on: '*' matches any
\* run of characters, '?' exactly one, any other character itself
RECURSIVE MatchFrom(_, _, _, _)
MatchFrom(p, i, s, j) ==
    IF i > Len(p) THEN j > Len(s)
    ELSE IF SubSeq(p, i, i) = "*"
         THEN \E k \in j..(Len(s) + 1) : MatchFrom(p, i + 1, s, k)
         ELSE /\ j <= Len(s)
              /\ SubSeq(p, i, i) = "?" \/ SubSeq(p, i, i) = SubSeq(s, j, j)
              /\ MatchFrom(p, i + 1, s, j + 1)

\* the whole basePath matches the pattern
GlobMatch(p, s) == MatchFrom(p, 1, s, 1)

\* mutant: a record passes when it matches every pattern
Passes_EveryPattern(row, fs) ==
    \A k \in 1..Len(fs) : GlobMatch(fs[k], row.basePath)

\* a record passes when no filter is given or its basePath matches one
Passes(row, fs) ==
    fs = <<>> \/ \E k \in 1..Len(fs) : GlobMatch(fs[k], row.basePath)

\* the rows the orchestrator works on
RECURSIVE FilteredRows(_, _)
FilteredRows(rows, fs) ==
    IF rows = <<>> THEN <<>>
    ELSE (IF Passes(Head(rows), fs) THEN <<Head(rows)>> ELSE <<>>)
         \o FilteredRows(Tail(rows), fs)

\* mutant: every record counts, whether or not it shares its archive
TotalSize_PerRecord(rows) ==
    IF rows = <<>> THEN 0
    ELSE LET S[i \in 0..Len(rows)] ==
                IF i = 0 THEN 0 ELSE S[i - 1] + rows[i].fileSize
         IN S[Len(rows)]

\* the bytes to restore: the sizes of the archives of the rows, each once
TotalSize(rows) == SumSizes(rows, {rows[i].archiveId : i \in 1..Len(rows)})

\* the line printed before retrieval starts
ToRestoreLine(rows) == ToString(TotalSize(rows)) \o "B to restore"

\* ------------------------------------------------------------ initial states
\* the contexts of the tests, and DownloadArchives' own: the budget is what
\* the speed downloads during the 4 hours a retrieval takes
Contexts ==
    {[speed |-> 1, maxSize |-> S_1MB, listMax |-> 1],
     [speed |-> 3496, maxSize |-> 2 * S_1MB, listMax |-> 10],
     [speed |-> 3496, maxSize |-> S_1MB, listMax |-> 1]}
    \cup {[speed |-> s, maxSize |-> s * RetrievalLatencySec, listMax |-> 10] :
            s \in {73, 3496}}

StagingChoices(rows, a) ==
    IF RowsOf(rows, a) = {} THEN {-1}
    ELSE {-1} \cup {l \in StagingLengths \cup {DeclaredSizeIn(rows, a)} :
                        l <= DeclaredSizeIn(rows, a)}

StagedFile(l) ==
    IF l < 0 THEN NoFile
    ELSE [exists |-> TRUE,
          content |-> IF l = 0 THEN <<>>
                      ELSE <<[src |-> "staged", lo |-> 0, hi |-> l - 1]>>]

\* retrieval jobs a previous run may have left in the cache
CacheCandidates(rows) ==
    {e \in [archiveId : ArchiveIds, lo : {0, 2 * S_1MB},
            hi : {4, S_1MB - 1, 2 * S_1MB - 1, 3 * S_1MB - 1}] :
        /\ RowsOf(rows, e.archiveId) # {}
        /\ e.lo <= e.hi
        /\ e.hi < DeclaredSizeIn(rows, e.archiveId)
        /\ \/ e.hi = DeclaredSizeIn(rows, e.archiveId) - 1
           \/ (e.hi + 1) % S_1MB = 0}

Init ==
    /\ mapping \in UNION {[1..n -> RowChoices] : n \in 1..MaxRows}
    /\ filters = <<>>
    /\ file_info_tb = FilteredRows(mapping, filters)
    /\ output = <<ToRestoreLine(file_info_tb)>>
    /\ \E c \in Contexts :
        /\ speedInBytesBySec = c.speed
        /\ archivesRetrievalMaxSize = c.maxSize
        /\ archivePartRetrievalListMaxSize = c.listMax
    /\ TotalSize(file_info_tb) <= MaxWindows * speedInBytesBySec * DownloadWindowSec
    /\ stagingAtStartup \in [ArchiveIds -> StagingLengths \cup {-1} \cup UNION {ArchiveSizes[a] : a \in ArchiveIds}]
    /\ \A a \in ArchiveIds : stagingAtStartup[a] \in StagingChoices(file_info_tb, a)
    /\ staging = [a \in AllArchiveIds |->
                    IF a \in ArchiveIds THEN StagedFile(stagingAtStartup[a])
                    ELSE NoFile]
    /\ \E cached \in SUBSET CacheCandidates(file_info_tb) :
        /\ Cardinality(cached)
             + Cardinality({a \in ArchiveIds : stagingAtStartup[a] >= 0})
                <= MaxStartupFiles
        /\ jobCache = {[archiveId |-> e.archiveId, lo |-> e.lo, hi |-> e.hi,
                        jobId |-> [seq |-> 0, cached |-> TRUE, of |-> e]] :
                            e \in cached}
    /\ dest = [i \in 1..Len(file_info_tb) |-> NoFile]
    /\ archivesRetrievalSize = 0
    /\ archivePartRetrieveList = <<>>
    /\ archiveRows = 1
    /\ archiveRetrieve = NoArchive
    /\ unavailable = {}
    /\ initiateJobCalls = <<>>
    /\ describeJobCalls = {}
    /\ getJobOutputCalls = <<>>
    /\ emitted = <<>>
    /\ chunks = <<>>
    /\ windowLeft = 0
    /\ previousRun = NoRun
    /\ staleJobs = {}
    /\ pc = "plan"
    /\ MappingDownloaded
    /\ VaultSelected

\* ------------------------------------------------------------- materializer
\* mutant: the sentinel is taken for an archive like any other
IsZeroSizeArchive_Never(a) == FALSE

\* an empty file: nothing to retrieve
IsZeroSizeArchive(a) == a = GlacierZeroSizeFile

\* mutant: the archive is materialized as soon as bytes are staged
ArchiveComplete_AnyBytes(a, content) == ContentLen(content) > 0

\* mutant: a staging file counts as complete only once bytes were downloaded
ArchiveComplete_NeedsDownload(a, content) ==
    /\ ContentLen(content) = DeclaredSize(a)
    /\ \E k \in 1..Len(content) : content[k].src = "job"

\* the staging file holds the whole archive
ArchiveComplete(a, content) == ContentLen(content) = DeclaredSize(a)

\* mutant: the staging file is left in the destination directory
RemoveStaging_KeepFile(a) == staging

\* the staging file of a materialized archive is removed
RemoveStaging(a) == [staging EXCEPT ![a] = NoFile]

\* mutant: the staging file is copied whole, whatever the row's fileSize
CopyToTargets_Whole(a, content) ==
    [i \in 1..Len(file_info_tb) |->
        IF file_info_tb[i].archiveId = a
        THEN [exists |-> TRUE, content |-> content]
        ELSE dest[i]]

\* the archive is complete: copy the staging file to every row that targets
\* the archive, cut to the row's fileSize, then remove the staging file
CopyToTargets(a, content) ==
    [i \in 1..Len(file_info_tb) |->
        IF file_info_tb[i].archiveId = a
        THEN [exists |-> TRUE,
              content |-> Truncate(content, file_info_tb[i].fileSize)]
        ELSE dest[i]]

\* ------------------------------------------------------------------ planner
\* mutant: the staging file found at startup is ignored
ResumeIndex_FromStart(l) == 0

\* mutant: retrieval resumes at the staging length itself
ResumeIndex_NoRounding(l) == IF l <= 0 THEN 0 ELSE l

\* where retrieval of an archive starts: the staging length, rounded down to
\* a multiple of 1 MiB
ResumeIndex(l) == IF l <= 0 THEN 0 ELSE l - (l % S_1MB)

\* mutant: the staging file found at startup is kept whole
TruncateStaging_KeepAll(content, from) == content

\* the staging file found at startup is cut at the index retrieval resumes
\* from: the bytes past it are downloaded again
TruncateStaging(content, from) == Truncate(content, from)

\* the archive is taken from the cursor: the zero-size sentinel and an archive
\* whose staging file is complete are materialized at once
LoadNextArchive ==
    /\ pc = "plan"
    /\ archiveRetrieve = NoArchive
    /\ HasArchiveRows
    /\ LET a == ArchiveOrder[archiveRows]
           size == DeclaredSize(a)
       IN /\ archiveRows' = archiveRows + 1
          /\ IF IsZeroSizeArchive(a)
             THEN /\ dest' = CopyToTargets(a, <<>>)
                  /\ UNCHANGED <<staging, archiveRetrieve>>
             ELSE IF staging[a].exists /\ ArchiveComplete(a, staging[a].content)
             THEN /\ dest' = CopyToTargets(a, staging[a].content)
                  /\ staging' = RemoveStaging(a)
                  /\ UNCHANGED archiveRetrieve
             ELSE LET from == ResumeIndex(ContentLen(staging[a].content))
                  IN /\ archiveRetrieve' =
                          [archiveId |-> a, size |-> size,
                           nextByteIndexToRetrieve |-> from]
                     /\ staging' =
                          IF staging[a].exists
                          THEN [staging EXCEPT
                                  ![a].content =
                                    TruncateStaging(staging[a].content, from)]
                          ELSE staging
                     /\ UNCHANGED dest
    /\ UNCHANGED <<ctxVars, archivesRetrievalSize, archivePartRetrieveList,
                   jobCache, unavailable, initiateJobCalls, describeJobCalls,
                   getJobOutputCalls, emitted, chunks, windowLeft, pc>>

\* mutant: the whole rest of the archive, whatever the budget
SizeToRetrieve_IgnoreBudget(free, left) == left

\* mutant: the free budget is not rounded down to a multiple of 1 MiB
SizeToRetrieve_NoRounding(free, left) == IF left <= free THEN left ELSE free

\* mutant: an archive is retrieved whole or not at all
SizeToRetrieve_WholeOnly(free, left) == IF left <= free THEN left ELSE 0

\* the size of the next part: what is left of the archive when the budget
\* allows it, else the free budget rounded down to a multiple of 1 MiB
SizeToRetrieve(free, left) ==
    IF left <= free THEN left ELSE free - (free % S_1MB)

NextPartSize ==
    SizeToRetrieve(archivesRetrievalMaxSize - archivesRetrievalSize,
                   archiveRetrieve.size - archiveRetrieve.nextByteIndexToRetrieve)

CanRetrieve ==
    /\ archiveRetrieve # NoArchive
    /\ Len(archivePartRetrieveList) < archivePartRetrievalListMaxSize
    /\ NextPartSize > 0

\* mutant: the cache is not looked up
CachedJobs_Never(a, lo, hi) == {}

\* the jobs of the cache for the same archive and the same byte range
CachedJobs(a, lo, hi) ==
    {e \in jobCache : e.archiveId = a /\ e.lo = lo /\ e.hi = hi}

\* mutant: the end of the range is exclusive
PartRange_EndExclusive(lo, n) == [lo |-> lo, hi |-> lo + n]

\* the byte range of a part of n bytes from index lo: both ends inclusive
PartRange(lo, n) == [lo |-> lo, hi |-> lo + n - 1]

NewPart(a, lo, hi, jobId) ==
    [archiveId |-> a, lo |-> lo, hi |-> hi, size |-> hi - lo + 1,
     jobId |-> jobId, nextByteIndexToDownload |-> 0, ready |-> FALSE]

\* the part is emitted: budget reserved, cursor of the archive advanced
EmitPart(a, lo, hi, n, jobId, cached) ==
    /\ archivePartRetrieveList' =
            Append(archivePartRetrieveList, NewPart(a, lo, hi, jobId))
    /\ emitted' = Append(emitted, [archiveId |-> a, lo |-> lo, hi |-> hi,
                                   jobId |-> jobId, cached |-> cached])
    /\ archivesRetrievalSize' = archivesRetrievalSize + n
    /\ archiveRetrieve' =
            IF lo + n = archiveRetrieve.size THEN NoArchive
            ELSE [archiveRetrieve EXCEPT !.nextByteIndexToRetrieve = lo + n]

\* the answers the store has given for an archive, in this run and before: a
\* job of the cache was initiated for an archive the store found
Answers(a) ==
    {initiateJobCalls[i].found :
        i \in {j \in 1..Len(initiateJobCalls) : initiateJobCalls[j].archiveId = a}}
    \cup {e.found : e \in {x \in previousRun.answers : x.archiveId = a}}
    \cup {TRUE : e \in {x \in jobCache : x.archiveId = a}}

\* what InitiateJob may answer: the store does not change, an archive it has
\* found once is there and one it has not found is not; an archive not asked
\* for yet is found or is not (ResourceNotFoundException)
ArchiveFound(a) == IF Answers(a) # {} THEN Answers(a) ELSE BOOLEAN

\* mutant: an archive the store did not find is tried again
GiveUpArchive_Retry(archive) == archive

\* the archive being planned once InitiateJob did not find it: none, the
\* planner goes on with the next archive of the cursor
GiveUpArchive(archive) == NoArchive

\* a retrieval job is started for the next part of the archive, unless the
\* cache holds a job for the same archive and range; an archive the store
\* does not find is given up
StartPartRetrieval ==
    /\ pc = "plan"
    /\ CanRetrieve
    /\ LET a == archiveRetrieve.archiveId
           n == NextPartSize
           lo == PartRange(archiveRetrieve.nextByteIndexToRetrieve, n).lo
           hi == PartRange(archiveRetrieve.nextByteIndexToRetrieve, n).hi
       IN IF CachedJobs(a, lo, hi) # {}
          THEN /\ EmitPart(a, lo, hi, n,
                           (CHOOSE e \in CachedJobs(a, lo, hi) : TRUE).jobId, TRUE)
               /\ UNCHANGED <<jobCache, unavailable, initiateJobCalls>>
          ELSE \E found \in ArchiveFound(a) :
                /\ initiateJobCalls' =
                      Append(initiateJobCalls,
                             [archiveId |-> a, lo |-> lo, hi |-> hi, found |-> found])
                /\ IF found
                   THEN LET jobId == [seq |-> Len(initiateJobCalls) + 1,
                                      cached |-> FALSE]
                        IN /\ EmitPart(a, lo, hi, n, jobId, FALSE)
                           /\ jobCache' = jobCache \cup
                                {[archiveId |-> a, lo |-> lo, hi |-> hi,
                                  jobId |-> jobId]}
                           /\ UNCHANGED unavailable
                   ELSE /\ unavailable' = unavailable \cup {a}
                        /\ archiveRetrieve' = GiveUpArchive(archiveRetrieve)
                        /\ UNCHANGED <<archivePartRetrieveList, emitted,
                                       archivesRetrievalSize, jobCache>>
    /\ UNCHANGED <<ctxVars, archiveRows, staging, dest, describeJobCalls,
                   getJobOutputCalls, chunks, windowLeft, pc>>

\* nothing more can be initiated now: the run ends when nothing is left, else
\* a download window of 5 minutes at the configured speed opens
EndPlanning ==
    /\ pc = "plan"
    /\ ~(archiveRetrieve = NoArchive /\ HasArchiveRows)
    /\ ~CanRetrieve
    /\ IF archiveRetrieve = NoArchive /\ archivePartRetrieveList = <<>>
       THEN pc' = "done" /\ UNCHANGED windowLeft
       ELSE /\ pc' = "download"
            /\ windowLeft' = speedInBytesBySec * DownloadWindowSec
    /\ UNCHANGED <<ctxVars, archivesRetrievalSize, archivePartRetrieveList,
                   archiveRows, archiveRetrieve, staging, dest, jobCache,
                   unavailable, initiateJobCalls, describeJobCalls,
                   getJobOutputCalls, emitted, chunks>>

\* ------------------------------------------------------------ download loop
\* mutant: the newest part is downloaded first
PartToDownload_Newest(list) == Len(list)

\* mutant: a part initiated later is downloaded before the oldest
PartToDownload_Second(list) == IF Len(list) > 1 THEN 2 ELSE 1

\* the part to download next: the oldest of the list
PartToDownload(list) == 1

RemoveAt(list, k) == SubSeq(list, 1, k - 1) \o SubSeq(list, k + 1, Len(list))

\* mutant: the entry of the job the service does not know stays in the cache
InvalidateJob_Keep(cache, part) == cache

\* the cache without the entry of the part
InvalidateJob(cache, part) ==
    {e \in cache : ~(e.archiveId = part.archiveId /\ e.lo = part.lo
                     /\ e.hi = part.hi)}

\* DescribeJob did not find the job of part k: its cache entry is invalidated,
\* a job is initiated for the same archive and range, polling goes on with it
ReinitiateJob(k) ==
    LET part == archivePartRetrieveList[k]
        jobId == [seq |-> Len(initiateJobCalls) + 1, cached |-> FALSE]
    IN /\ initiateJobCalls' =
              Append(initiateJobCalls,
                     [archiveId |-> part.archiveId, lo |-> part.lo,
                      hi |-> part.hi, found |-> TRUE])
       /\ jobCache' = InvalidateJob(jobCache, part) \cup
                          {[archiveId |-> part.archiveId, lo |-> part.lo,
                            hi |-> part.hi, jobId |-> jobId]}
       /\ archivePartRetrieveList' =
              [archivePartRetrieveList EXCEPT ![k].jobId = jobId,
                                              ![k].ready = FALSE]

\* the job of the part to download is polled until it is completed: a poll
\* that finds it in progress changes nothing, and the loop polls again
DescribeJob ==
    /\ pc = "download"
    /\ windowLeft > 0
    /\ archivePartRetrieveList # <<>>
    /\ ~archivePartRetrieveList[PartToDownload(archivePartRetrieveList)].ready
    /\ describeJobCalls' =
            describeJobCalls \cup
            {[archiveId |->
                archivePartRetrieveList[PartToDownload(archivePartRetrieveList)].archiveId,
              jobId |->
                archivePartRetrieveList[PartToDownload(archivePartRetrieveList)].jobId]}
    /\ IF archivePartRetrieveList[PartToDownload(archivePartRetrieveList)].jobId
            \in staleJobs
       THEN ReinitiateJob(PartToDownload(archivePartRetrieveList))
       ELSE /\ \E completed \in BOOLEAN :
                IF completed
                THEN archivePartRetrieveList' =
                        [archivePartRetrieveList EXCEPT
                            ![PartToDownload(archivePartRetrieveList)].ready = TRUE]
                ELSE UNCHANGED archivePartRetrieveList
            /\ UNCHANGED <<jobCache, initiateJobCalls>>
    /\ UNCHANGED <<ctxVars, archivesRetrievalSize, archiveRows, archiveRetrieve,
                   staging, dest, unavailable, getJobOutputCalls, emitted,
                   chunks, windowLeft, pc>>

\* mutant: the budget of a part is released when its last byte is downloaded
Released_WhenPartEnds(size, from, n) == IF from + n = size THEN size ELSE 0

\* the budget released by the download of n bytes of a part, from index from:
\* the bytes downloaded
Released(size, from, n) == n

\* the bytes GetJobOutput returns for range lo-hi of a job: the range is
\* relative to the start of the job's own range
JobOutput(part, lo, hi) ==
    [src |-> "job", lo |-> part.lo + lo, hi |-> part.lo + hi]

\* mutant: the whole window is read, whatever is left of the part
BytesToRead_WholeWindow(left, rest) == left

\* mutant: a part is read to its end, whatever is left of the window
BytesToRead_WholePart(left, rest) == rest

\* the bytes read in one step: what is left of the window, or of the part
BytesToRead(left, rest) == Min(left, rest)

\* mutant: the range asked for is a range of the archive
OutputRange_OfArchive(part, from, n) ==
    [lo |-> part.lo + from, hi |-> part.lo + from + n - 1]

\* the range GetJobOutput is asked for, to read n bytes of a part from index
\* from: it counts from the start of the job's range
OutputRange(part, from, n) == [lo |-> from, hi |-> from + n - 1]

\* what is left of the window, or of the part, is read from the part to
\* download and appended to the staging file of its archive; a complete
\* archive is materialized
DownloadPart ==
    /\ pc = "download"
    /\ windowLeft > 0
    /\ archivePartRetrieveList # <<>>
    /\ archivePartRetrieveList[PartToDownload(archivePartRetrieveList)].ready
    /\ LET k == PartToDownload(archivePartRetrieveList)
           part == archivePartRetrieveList[k]
           a == part.archiveId
           from == part.nextByteIndexToDownload
           n == BytesToRead(windowLeft, part.size - from)
           piece == JobOutput(part, from, from + n - 1)
           content == AppendPiece(staging[a].content, piece)
       IN /\ getJobOutputCalls' =
                Append(getJobOutputCalls,
                       [archiveId |-> a, jobId |-> part.jobId,
                        lo |-> OutputRange(part, from, n).lo,
                        hi |-> OutputRange(part, from, n).hi])
          /\ chunks' = Append(chunks,
                [archiveId |-> a, offset |-> piece.lo, size |-> n,
                 at |-> ContentLen(staging[a].content)])
          /\ windowLeft' = windowLeft - n
          /\ archivesRetrievalSize' =
                archivesRetrievalSize - Released(part.size, from, n)
          /\ archivePartRetrieveList' =
                IF from + n = part.size
                THEN RemoveAt(archivePartRetrieveList, k)
                ELSE [archivePartRetrieveList EXCEPT
                        ![k].nextByteIndexToDownload = from + n]
          /\ IF ArchiveComplete(a, content)
             THEN /\ dest' = CopyToTargets(a, content)
                  /\ staging' = RemoveStaging(a)
             ELSE /\ staging' = [staging EXCEPT
                                   ![a] = [exists |-> TRUE, content |-> content]]
                  /\ UNCHANGED dest
    /\ UNCHANGED <<ctxVars, archiveRows, archiveRetrieve, jobCache, unavailable,
                   initiateJobCalls, describeJobCalls, emitted, pc>>

\* the window is used up, or nothing is left to download: back to planning
EndWindow ==
    /\ pc = "download"
    /\ windowLeft = 0 \/ archivePartRetrieveList = <<>>
    /\ pc' = "plan"
    /\ UNCHANGED <<ctxVars, archivesRetrievalSize, archivePartRetrieveList,
                   archiveRows, archiveRetrieve, staging, dest, jobCache,
                   unavailable, initiateJobCalls, describeJobCalls,
                   getJobOutputCalls, emitted, chunks, windowLeft>>

Next ==
    \/ LoadNextArchive
    \/ StartPartRetrieval
    \/ EndPlanning
    \/ DescribeJob
    \/ DownloadPart
    \/ EndWindow

Spec == Init /\ [][Next]_vars

\* the same runs, named for the properties of the download stage
SpecDownload == Init /\ [][Next]_vars

\* the same runs, named for the properties of staging files and cached jobs
\* found at startup
SpecResume == Init /\ [][Next]_vars

\* ------------------------------------------------------------- a second run
\* the orchestrator is run again on the same mapping, context and destination
\* directory: files and staging files are as the run before left them, the
\* job cache still holds the jobs initiated, the planner starts afresh
\* mutant: the job cache does not outlive the run
PersistedJobs_None(cache) == {}

\* the jobs the next run finds in the cache: those this run leaves in it,
\* now jobs known at startup
PersistedJobs(cache) ==
    {[e EXCEPT !.jobId = [seq |-> 0, cached |-> TRUE,
                          of |-> [archiveId |-> e.archiveId,
                                  lo |-> e.lo, hi |-> e.hi]]] : e \in cache}

Restart ==
    /\ pc = "done"
    /\ previousRun.runs + 1 < MaxRuns
    /\ previousRun' =
            [runs |-> previousRun.runs + 1,
             initiateJobCalls |-> initiateJobCalls,
             dest |-> dest,
             stagingAtStartup |-> stagingAtStartup,
             jobsAtStartup |-> {e \in jobCache : e.jobId.cached},
             answers |-> previousRun.answers \cup
                {[archiveId |-> initiateJobCalls[i].archiveId,
                  found |-> initiateJobCalls[i].found] :
                        i \in 1..Len(initiateJobCalls)}]
    /\ stagingAtStartup' =
            [a \in DOMAIN stagingAtStartup |->
                IF staging[a].exists THEN ContentLen(staging[a].content) ELSE -1]
    /\ staging' =
            [a \in DOMAIN staging |->
                IF staging[a].exists
                THEN StagedFile(ContentLen(staging[a].content))
                ELSE NoFile]
    /\ jobCache' = PersistedJobs(jobCache)
    /\ archivesRetrievalSize' = 0
    /\ archivePartRetrieveList' = <<>>
    /\ archiveRows' = 1
    /\ archiveRetrieve' = NoArchive
    /\ unavailable' = {}
    /\ initiateJobCalls' = <<>>
    /\ describeJobCalls' = {}
    /\ getJobOutputCalls' = <<>>
    /\ emitted' = <<>>
    /\ chunks' = <<>>
    /\ windowLeft' = 0
    /\ pc' = "plan"
    /\ output' = Append(output, ToRestoreLine(file_info_tb))
    /\ UNCHANGED <<mapping, filters, file_info_tb, speedInBytesBySec,
                   archivesRetrievalMaxSize, archivePartRetrievalListMaxSize,
                   dest, staleJobs, mappingVars, outputsVars, selectVars>>

\* the runs of the context most tests use: 3496 B/s, 2 MiB, 10 parts
InitRestart ==
    /\ Init
    /\ speedInBytesBySec = 3496
    /\ archivesRetrievalMaxSize = 2 * S_1MB
    /\ archivePartRetrievalListMaxSize = 10

NextRestart ==
    \/ Next
    \/ Restart

SpecRestart == InitRestart /\ [][NextRestart]_vars

\* ------------------------------------------- runs with archives not found
\* three records, as in the test of the archive that is not found: each its
\* own archive or sharing one, of one byte or of more than a download window
MaxNotFoundRows == 3

NotFoundArchiveIds == {"archiveId1", "archiveId2", "archiveId3"}
NotFoundSizes == {1, 1058576}

InitNotFound ==
    /\ mapping \in
            UNION {[1..n -> [archiveId : NotFoundArchiveIds, fileSize : NotFoundSizes]] :
                        n \in 2..MaxNotFoundRows}
    /\ filters = <<>>
    /\ file_info_tb = FilteredRows(mapping, filters)
    /\ output = <<ToRestoreLine(file_info_tb)>>
    /\ \E c \in {c \in Contexts : c.speed = 3496 /\ c.maxSize <= 2 * S_1MB} :
        /\ speedInBytesBySec = c.speed
        /\ archivesRetrievalMaxSize = c.maxSize
        /\ archivePartRetrievalListMaxSize = c.listMax
    /\ stagingAtStartup = [a \in NotFoundArchiveIds |-> -1]
    /\ staging = [a \in NotFoundArchiveIds \cup {GlacierZeroSizeFile} |-> NoFile]
    /\ jobCache = {}
    /\ dest = [i \in 1..Len(file_info_tb) |-> NoFile]
    /\ archivesRetrievalSize = 0
    /\ archivePartRetrieveList = <<>>
    /\ archiveRows = 1
    /\ archiveRetrieve = NoArchive
    /\ unavailable = {}
    /\ initiateJobCalls = <<>>
    /\ describeJobCalls = {}
    /\ getJobOutputCalls = <<>>
    /\ emitted = <<>>
    /\ chunks = <<>>
    /\ windowLeft = 0
    /\ previousRun = NoRun
    /\ staleJobs = {}
    /\ pc = "plan"
    /\ MappingDownloaded
    /\ VaultSelected

SpecNotFound == InitNotFound /\ [][Next]_vars

\* ------------------------------------------------------- runs with filters
FileRecord(basePath, archiveId, fileSize) ==
    [basePath |-> basePath, archiveId |-> archiveId, fileSize |-> fileSize]

\* the filters of the tests
TestFilters == <<"data/folder/*", "*.info", "data/file??.bin", "data/iwantthis">>

\* the twelve records of the test of the filtered files
FilterScenarioRows ==
    <<FileRecord("data/folder/file1.txt", "archiveId1", 2),
      FileRecord("data/folder/file2.bin", "archiveId2", 2),
      FileRecord("data/folderno/no.bin", "archiveId3", 2),
      FileRecord("data/no", "archiveId4", 2),
      FileRecord("data/otherfolder/no", "archiveId5", 2),
      FileRecord("data/otherfolder/file3.info", "archiveId6", 2),
      FileRecord("data/otherfolder/no.txt", "archiveId7", 2),
      FileRecord("data/file4.info", "archiveId8", 2),
      FileRecord("data/file41.bin", "archiveId9", 2),
      FileRecord("data/file42.bin", "archiveId10", 2),
      FileRecord("data/filenop.bin", "archiveId11", 2),
      FileRecord("data/iwantthis", "archiveId12", 2)>>

\* the five records of the test of the total size
TotalSizeScenarioRows ==
    <<FileRecord("data/folder/file1.txt", "archiveId1", 2),
      FileRecord("data/folder/file2.bin", "archiveId2", 2),
      FileRecord("data/folder/file3.txt", "archiveId1", 2),
      FileRecord("data/no", "archiveId3", 2),
      FileRecord("data/nop", "archiveId1", 2)>>

\* the patterns of list at the indices of S, in order
SubList(list, S) ==
    LET F[i \in 0..Len(list)] ==
            IF i = 0 THEN <<>>
            ELSE IF i \in S THEN Append(F[i - 1], list[i]) ELSE F[i - 1]
    IN F[Len(list)]

\* every non-empty choice among the filters of the tests
FilterLists ==
    {SubList(TestFilters, S) : S \in (SUBSET (1..Len(TestFilters))) \ {{}}}

ArchiveIdsOf(rows) == {rows[i].archiveId : i \in 1..Len(rows)}

InitFilter ==
    /\ mapping \in {FilterScenarioRows, TotalSizeScenarioRows}
    /\ filters \in FilterLists
    /\ file_info_tb = FilteredRows(mapping, filters)
    /\ output = <<ToRestoreLine(file_info_tb)>>
    /\ speedInBytesBySec = 3496
    /\ archivesRetrievalMaxSize = 2 * S_1MB
    /\ archivePartRetrievalListMaxSize = 10
    /\ stagingAtStartup = [a \in ArchiveIdsOf(mapping) |-> -1]
    /\ staging = [a \in ArchiveIdsOf(mapping) \cup {GlacierZeroSizeFile} |-> NoFile]
    /\ jobCache = {}
    /\ dest = [i \in 1..Len(file_info_tb) |-> NoFile]
    /\ archivesRetrievalSize = 0
    /\ archivePartRetrieveList = <<>>
    /\ archiveRows = 1
    /\ archiveRetrieve = NoArchive
    /\ unavailable = {}
    /\ initiateJobCalls = <<>>
    /\ describeJobCalls = {}
    /\ getJobOutputCalls = <<>>
    /\ emitted = <<>>
    /\ chunks = <<>>
    /\ windowLeft = 0
    /\ previousRun = NoRun
    /\ staleJobs = {}
    /\ pc = "plan"
    /\ MappingDownloaded
    /\ VaultSelected

SpecFilter == InitFilter /\ [][Next]_vars

\* ------------------------------------------------- the mapping archive
\* DownloadMappingArchive: an inventory job finds the mapping archive of the
\* mapping vault, a retrieval job fetches it; RegionVaultCache holds the job
\* ids and the archive between two starts
MaxPolls == 2

InventoryJobId == "inventoryMappingJobId"
RetrieveJobId == "retrieveMappingJobId"
\* the job ids the service still knows
KnownJobIds == {InventoryJobId, RetrieveJobId}
MappingArchiveSizes == {1, 42}
MappingContent == "hello !"
NoMappingFile == [exists |-> FALSE, content |-> ""]
OldMappingFile == [exists |-> TRUE, content |-> "old"]

MappingArchive(id, size) == [ArchiveId |-> id, Size |-> size]

\* the inventories the service can answer with (Limit is 2)
ArchiveLists ==
    {<<MappingArchive("mappingArchiveId", n)>> : n \in MappingArchiveSizes}
    \cup {<<MappingArchive("mappingArchiveId", n),
            MappingArchive("otherArchiveId", 7)>> : n \in MappingArchiveSizes}

\* the caches a former start can have left
StartupCaches ==
    {EmptyCache}
    \cup {[EmptyCache EXCEPT !.inventoryJobId = id] :
            id \in {InventoryJobId, "unknownInventoryMappingJobId"}}
    \cup {[EmptyCache EXCEPT !.mappingArchive = MappingArchive("mappingArchiveId", n),
                             !.retrievalJobId = id] :
            n \in MappingArchiveSizes,
            id \in {"", RetrieveJobId, "unknownRetrieveMappingJobId"}}

\* the prompt ends without a line break: what is printed next goes on its line
PromptLine ==
    "Local mapping archive already exists with last modification date <date>, retrieve a new mapping file ?[y/N]"

AfterPrompt(text) == PromptLine \o " " \o text

PrintLine(lines, text) ==
    IF lines # <<>> /\ lines[Len(lines)] = PromptLine
    THEN [lines EXCEPT ![Len(lines)] = AfterPrompt(text)]
    ELSE Append(lines, text)
DownloadedLine == "Mapping archive has been downloaded"
FinishedLine_Silent(id) == DownloadedLine

FinishedLine(id) == "Job has finished: " \o id

DoneLines_Finished(lines, id) == Append(lines, FinishedLine(id))

\* what a phase prints when its cached job is completed at the first
\* DescribeJob: nothing
DoneLines(lines, id) == lines

What(phase) ==
    IF phase = "inventory" THEN "find mapping archive id"
    ELSE "retrieve mapping archive"

JobLine(phase, state, id) ==
    "Job to " \o What(phase) \o " " \o state
        \o " (can last up to 4 hours): " \o id

StartedLine(phase, id) == JobLine(phase, "has started", id)

CachedJobLine_Started(phase, id) == JobLine(phase, "has started", id)

\* the line of a cached job that is still running
CachedJobLine(phase, id) == JobLine(phase, "is in progress", id)

WarningLine(phase) ==
    IF phase = "inventory"
    THEN "WARNING: Inventory job cahed for mapping vaul was not found"
    ELSE "WARNING: Retrieve mapping archive job cached was not found"

RetrievalRange_ToSize(size) == ToString(0) \o "-" \o ToString(size)

\* RetrievalByteRange of the whole mapping archive
RetrievalRange(size) == ToString(0) \o "-" \o ToString(size - 1)

NewJobId(phase) == IF phase = "inventory" THEN InventoryJobId ELSE RetrieveJobId

CachedJobId(phase) ==
    IF phase = "inventory" THEN regionVaultCache.inventoryJobId
    ELSE regionVaultCache.retrievalJobId

WithJobId_KeepCached(cache, phase, id) == cache

WithJobId(cache, phase, id) ==
    IF phase = "inventory" THEN [cache EXCEPT !.inventoryJobId = id]
    ELSE [cache EXCEPT !.retrievalJobId = id]

InitiateCall(phase) ==
    IF phase = "inventory"
    THEN [op |-> "InitiateJob", type |-> "inventory-retrieval",
          limit |-> "2", jobId |-> NewJobId(phase)]
    ELSE [op |-> "InitiateJob", type |-> "archive-retrieval",
          archiveId |-> regionVaultCache.mappingArchive.ArchiveId,
          range |-> RetrievalRange(regionVaultCache.mappingArchive.Size),
          jobId |-> NewJobId(phase)]

DescribeCall(id, answer) ==
    [op |-> "DescribeJob", jobId |-> id, answer |-> answer]

OutputCall(id) == [op |-> "GetJobOutput", jobId |-> id]

\* what DescribeJob can answer for a job
DescribeAnswers(id) ==
    IF id \in KnownJobIds THEN {"completed", "inProgress"} ELSE {"notFound"}

Polls(id) ==
    Len(SelectSeq(glacierCalls,
                  LAMBDA c : c.op = "DescribeJob" /\ c.jobId = id
                             /\ c.answer = "inProgress"))

\* a job is initiated, its id cached, its start printed
StartJob(phase, calls, lines) ==
    /\ glacierCalls' = Append(calls, InitiateCall(phase))
    /\ regionVaultCache' = WithJobId(regionVaultCache, phase, NewJobId(phase))
    /\ output' = PrintLine(lines, StartedLine(phase, NewJobId(phase)))
    /\ mpc' = phase \o "Wait"

\* the start of a phase: a new job, or the job a former start has cached
BeginJob(phase) ==
    /\ mpc = phase
    /\ LET id == CachedJobId(phase) IN
       IF id = "" THEN StartJob(phase, glacierCalls, output)
       ELSE \E answer \in DescribeAnswers(id) :
            LET calls == Append(glacierCalls, DescribeCall(id, answer)) IN
            CASE answer = "notFound" ->
                    StartJob(phase, calls, PrintLine(output, WarningLine(phase)))
              [] answer = "inProgress" ->
                    /\ glacierCalls' = calls
                    /\ output' = PrintLine(output, CachedJobLine(phase, id))
                    /\ mpc' = phase \o "Wait"
                    /\ UNCHANGED regionVaultCache
              [] answer = "completed" ->
                    /\ glacierCalls' = calls
                    /\ output' = DoneLines(output, id)
                    /\ mpc' = phase \o "Output"
                    /\ UNCHANGED regionVaultCache
    /\ UNCHANGED <<mappingEnv, mappingFile>>

\* one poll of the job of a phase
WaitJob(phase) ==
    /\ mpc = phase \o "Wait"
    /\ LET id == CachedJobId(phase) IN
       \E answer \in {"completed", "inProgress"} :
           /\ answer = "inProgress" => Polls(id) < MaxPolls
           /\ glacierCalls' = Append(glacierCalls, DescribeCall(id, answer))
           /\ IF answer = "completed"
              THEN /\ output' = PrintLine(output, FinishedLine(id))
                   /\ mpc' = phase \o "Output"
              ELSE UNCHANGED <<output, mpc>>
    /\ UNCHANGED <<mappingEnv, regionVaultCache, mappingFile>>

WantsNewMapping_Always(answer) == TRUE

\* the answer to the prompt: only y asks for a new mapping file
WantsNewMapping(answer) == answer = "y"

\* the local mapping file is kept unless the user asks for a new one
CheckMappingFile ==
    /\ mpc = "start"
    /\ IF mappingFile.exists
       THEN /\ output' = Append(output, PromptLine)
            /\ mpc' = IF WantsNewMapping(mappingEnv.answer) THEN "inventory"
                      ELSE "done"
       ELSE /\ mpc' = "inventory"
            /\ UNCHANGED output
    /\ UNCHANGED <<mappingEnv, regionVaultCache, mappingFile, glacierCalls>>
    /\ UNCHANGED downloadVars

MappingArchiveKnown_Never(cache) == FALSE

\* the cache holds the descriptor of the mapping archive
MappingArchiveKnown(cache) == cache.mappingArchive # NoMappingArchive

\* the inventory phase is skipped when the mapping archive is cached
SkipInventory ==
    /\ mpc = "inventory"
    /\ MappingArchiveKnown(regionVaultCache)
    /\ mpc' = "retrieve"
    /\ UNCHANGED <<mappingEnv, regionVaultCache, mappingFile, glacierCalls,
                   output>>
    /\ UNCHANGED downloadVars

BeginInventory ==
    /\ ~MappingArchiveKnown(regionVaultCache)
    /\ BeginJob("inventory")
    /\ UNCHANGED downloadVars

WaitInventory ==
    /\ WaitJob("inventory")
    /\ UNCHANGED downloadVars

\* the inventory is read: its first archive is the mapping archive
InventoryOutput ==
    /\ mpc = "inventoryOutput"
    /\ glacierCalls' =
           Append(glacierCalls, OutputCall(regionVaultCache.inventoryJobId))
    /\ regionVaultCache' =
           [regionVaultCache EXCEPT !.mappingArchive = mappingEnv.archiveList[1]]
    /\ mpc' = "retrieve"
    /\ UNCHANGED <<mappingEnv, mappingFile, output>>
    /\ UNCHANGED downloadVars

BeginRetrieve ==
    /\ BeginJob("retrieve")
    /\ UNCHANGED downloadVars

WaitRetrieve ==
    /\ WaitJob("retrieve")
    /\ UNCHANGED downloadVars

ClearCache_Keep(cache) == cache

\* the cache after a successful load of the mapping archive
ClearCache(cache) == EmptyCache

\* the mapping archive is written and the cache is cleared
RetrieveOutput ==
    /\ mpc = "retrieveOutput"
    /\ glacierCalls' =
           Append(glacierCalls, OutputCall(regionVaultCache.retrievalJobId))
    /\ mappingFile' = [exists |-> TRUE, content |-> MappingContent]
    /\ regionVaultCache' = ClearCache(regionVaultCache)
    /\ output' = PrintLine(output, DownloadedLine)
    /\ mpc' = "done"
    /\ UNCHANGED mappingEnv
    /\ UNCHANGED downloadVars

InitMapping ==
    /\ mappingEnv \in [cache : StartupCaches, fileExists : BOOLEAN,
                       answer : {"", "y"}, archiveList : ArchiveLists]
    /\ mappingEnv.answer = "y" => mappingEnv.fileExists
    /\ regionVaultCache = mappingEnv.cache
    /\ mappingFile = IF mappingEnv.fileExists THEN OldMappingFile
                     ELSE NoMappingFile
    /\ glacierCalls = <<>>
    /\ mpc = "start"
    /\ mapping = <<>>
    /\ filters = <<>>
    /\ file_info_tb = <<>>
    /\ output = <<>>
    /\ speedInBytesBySec = 3496
    /\ archivesRetrievalMaxSize = 2 * S_1MB
    /\ archivePartRetrievalListMaxSize = 10
    /\ stagingAtStartup = <<>>
    /\ staging = <<>>
    /\ jobCache = {}
    /\ dest = <<>>
    /\ archivesRetrievalSize = 0
    /\ archivePartRetrieveList = <<>>
    /\ archiveRows = 1
    /\ archiveRetrieve = NoArchive
    /\ unavailable = {}
    /\ initiateJobCalls = <<>>
    /\ describeJobCalls = {}
    /\ getJobOutputCalls = <<>>
    /\ emitted = <<>>
    /\ chunks = <<>>
    /\ windowLeft = 0
    /\ previousRun = NoRun
    /\ staleJobs = {}
    /\ pc = "mapping"
    /\ VaultSelected

\* ------------------------------------------------- jobs the service forgot
\* the cache holds jobs of a former run and the service no longer knows some
\* of them
MaxStaleRows == 2

InitStale ==
    /\ mapping \in UNION {[1..n -> RowChoices] : n \in 1..MaxStaleRows}
    /\ filters = <<>>
    /\ file_info_tb = FilteredRows(mapping, filters)
    /\ output = <<ToRestoreLine(file_info_tb)>>
    /\ speedInBytesBySec = 3496
    /\ archivesRetrievalMaxSize = 2 * S_1MB
    /\ archivePartRetrievalListMaxSize = 10
    /\ stagingAtStartup = [a \in ArchiveIds |-> -1]
    /\ staging = [a \in AllArchiveIds |-> NoFile]
    /\ \E cached \in (SUBSET CacheCandidates(file_info_tb)) \ {{}} :
        /\ Cardinality(cached) <= 2
        /\ jobCache = {[archiveId |-> e.archiveId, lo |-> e.lo, hi |-> e.hi,
                        jobId |-> [seq |-> 0, cached |-> TRUE, of |-> e]] :
                            e \in cached}
    /\ staleJobs \in (SUBSET {e.jobId : e \in jobCache}) \ {{}}
    /\ dest = [i \in 1..Len(file_info_tb) |-> NoFile]
    /\ archivesRetrievalSize = 0
    /\ archivePartRetrieveList = <<>>
    /\ archiveRows = 1
    /\ archiveRetrieve = NoArchive
    /\ unavailable = {}
    /\ initiateJobCalls = <<>>
    /\ describeJobCalls = {}
    /\ getJobOutputCalls = <<>>
    /\ emitted = <<>>
    /\ chunks = <<>>
    /\ windowLeft = 0
    /\ previousRun = NoRun
    /\ pc = "plan"
    /\ MappingDownloaded
    /\ VaultSelected

SpecStale == InitStale /\ [][Next]_vars

NextMapping ==
    \/ CheckMappingFile
    \/ SkipInventory
    \/ BeginInventory
    \/ WaitInventory
    \/ InventoryOutput
    \/ BeginRetrieve
    \/ WaitRetrieve
    \/ RetrieveOutput

SpecMapping == InitMapping /\ [][NextMapping]_vars

\* ----------------------------------------------------------- package outputs
MaxPrints == 2

LINE_BREAK == "\n"
Texts == {"text", "other text" \o LINE_BREAK}

\* every variable of the mapping phase and of the orchestrator
orchestratorVars == <<downloadVarsOfRun, output, mappingVars>>

\* the mapping phase and the orchestrator have not started
NotStarted ==
    /\ mappingEnv = [cache |-> EmptyCache, fileExists |-> FALSE,
                     answer |-> "", archiveList |-> <<>>]
    /\ regionVaultCache = EmptyCache
    /\ mappingFile = NoMappingFile
    /\ glacierCalls = <<>>
    /\ mpc = "start"
    /\ mapping = <<>>
    /\ filters = <<>>
    /\ file_info_tb = <<>>
    /\ output = <<>>
    /\ speedInBytesBySec = 3496
    /\ archivesRetrievalMaxSize = 2 * S_1MB
    /\ archivePartRetrievalListMaxSize = 10
    /\ stagingAtStartup = <<>>
    /\ staging = <<>>
    /\ jobCache = {}
    /\ dest = <<>>
    /\ archivesRetrievalSize = 0
    /\ archivePartRetrieveList = <<>>
    /\ archiveRows = 1
    /\ archiveRetrieve = NoArchive
    /\ unavailable = {}
    /\ initiateJobCalls = <<>>
    /\ describeJobCalls = {}
    /\ getJobOutputCalls = <<>>
    /\ emitted = <<>>
    /\ chunks = <<>>
    /\ windowLeft = 0
    /\ previousRun = NoRun
    /\ staleJobs = {}
    /\ pc = "select"

\* mutant: verbose messages are written whatever the flag
Suppressed_OptionalOnly(level) == level = OptionalInfo /\ OptionalInfoFlag = FALSE

\* print returns before it writes: a verbose message without VerboseFlag, an
\* optional one without OptionalInfoFlag
Suppressed(level) ==
    \/ level = Verbose /\ VerboseFlag = FALSE
    \/ level = OptionalInfo /\ OptionalInfoFlag = FALSE

\* the writer print takes for a level; nil for a level that is none of the
\* five
WriterOf(level) ==
    IF level = Verbose THEN writers.verboseWriter
    ELSE IF level = OptionalInfo THEN writers.optionalInfoWriter
    ELSE IF level = Info THEN writers.infoWriter
    ELSE IF level = Warning THEN writers.warningWriter
    ELSE IF level = Error THEN writers.errorWriter
    ELSE NilWriter

\* the text print writes for a level
Prefixed(level, toPrint) ==
    IF level = Warning THEN "WARNING: " \o toPrint
    ELSE IF level = Error THEN "ERROR: " \o toPrint
    ELSE toPrint

\* what the writers have received, the calls logged, and whether the process
\* has panicked
OutState == [written |-> written, printCalls |-> printCalls, opc |-> opc]

\* print(level, toPrint), from state st of the writers: writing to a writer
\* that was never set is a nil dereference, the process panics
print(st, level, toPrint) ==
    IF st.opc = "panic" THEN st
    ELSE LET logged ==
                [st EXCEPT !.printCalls =
                    Append(@, [level |-> level, toPrint |-> toPrint])]
         IN IF Suppressed(level) THEN logged
            ELSE IF WriterOf(level) = NilWriter
                 THEN [logged EXCEPT !.opc = "panic"]
                 ELSE [logged EXCEPT
                         !.written[WriterOf(level)] =
                            Append(@, Prefixed(level, toPrint))]

SetOutState(st) ==
    /\ written' = st.written
    /\ printCalls' = st.printCalls
    /\ opc' = st.opc

\* Println(level, text) and Printfln(level, format, ...) once the text is
\* formatted: print of the text and a line break
Println(st, level, text) == print(st, level, text \o LINE_BREAK)

\* the writers InitOutputs is called with: one buffer for every level, or a
\* writer of its own for each level
WriterParameters ==
    {<<"buffer", "buffer", "buffer", "buffer", "buffer">>,
     <<"verbose.log", "optional.log", "os.Stdout", "buffer", "os.Stderr">>}

InitOutputs ==
    /\ opc = "running"
    /\ \E p \in WriterParameters :
          writers' = InitOutputsWith(p[1], p[2], p[3], p[4], p[5])
    /\ UNCHANGED <<VerboseFlag, OptionalInfoFlag, written, printCalls, opc,
                   selectVars, orchestratorVars>>

InitDefaultOutputs ==
    /\ opc = "running"
    /\ writers' = DefaultWriters
    /\ UNCHANGED <<VerboseFlag, OptionalInfoFlag, written, printCalls, opc,
                   selectVars, orchestratorVars>>

\* the flags are package variables any caller may assign
SetFlags ==
    /\ opc = "running"
    /\ \E v, o \in BOOLEAN :
          /\ VerboseFlag' = v
          /\ OptionalInfoFlag' = o
    /\ UNCHANGED <<writers, written, printCalls, opc, selectVars,
                   orchestratorVars>>

PrintMessage ==
    /\ opc = "running"
    /\ Len(printCalls) < MaxPrints
    /\ \E level \in Levels, toPrint \in Texts :
          SetOutState(print(OutState, level, toPrint))
    /\ UNCHANGED <<VerboseFlag, OptionalInfoFlag, writers, selectVars,
                   orchestratorVars>>

\* the package as the program finds it: no writer set, the flags as declared
InitOutputsPackage ==
    /\ VerboseFlag = FALSE
    /\ OptionalInfoFlag = TRUE
    /\ writers = NoWriters
    /\ written = NothingWritten
    /\ printCalls = <<>>
    /\ opc = "running"
    /\ synologyCoupleVaults = <<>>
    /\ synologyCoupleVaultToUse = 0
    /\ queries = <<>>
    /\ selected = <<>>
    /\ spc = "idle"
    /\ NotStarted

NextOutputs ==
    \/ InitOutputs
    \/ InitDefaultOutputs
    \/ SetFlags
    \/ PrintMessage

SpecOutputs == InitOutputsPackage /\ [][NextOutputs]_vars

\* ---------------------------------------------------------- vault selection
MaxVaults == 3
MaxQueries == 2

Regions == {"region1", "region2"}
VaultNames == {"vault1", "vault2"}

\* the lists GetSynologyVaults may return: vaults of the account, each with
\* the region it lies in and its name
VaultLists ==
    UNION {[1..n -> [Region : Regions, Name : VaultNames]] : n \in 0..MaxVaults}

\* mutant: a vault is taken when its region or its name is the one entered
getVaultIfExist_Either(region, vault, vaults) ==
    IF \E i \in 1..Len(vaults) :
            vaults[i].Region = region \/ vaults[i].Name = vault
    THEN CHOOSE i \in 1..Len(vaults) :
            /\ vaults[i].Region = region \/ vaults[i].Name = vault
            /\ \A j \in 1..(i - 1) :
                  ~(vaults[j].Region = region \/ vaults[j].Name = vault)
    ELSE 0

\* the first vault of the list with the region and the name given; 0 (nil)
\* when the list has none
getVaultIfExist(region, vault, vaults) ==
    IF \E i \in 1..Len(vaults) :
            vaults[i].Region = region /\ vaults[i].Name = vault
    THEN CHOOSE i \in 1..Len(vaults) :
            /\ vaults[i].Region = region /\ vaults[i].Name = vault
            /\ \A j \in 1..(i - 1) :
                  ~(vaults[j].Region = region /\ vaults[j].Name = vault)
    ELSE 0

\* the vaults are listed, one line each: "<region>:<name>"
RECURSIVE ListVaults(_, _)
ListVaults(st, vaults) ==
    IF vaults = <<>> THEN st
    ELSE ListVaults(Println(st, Info,
                            Head(vaults).Region \o ":" \o Head(vaults).Name),
                    Tail(vaults))

\* the switch on the length of the list: an empty list leaves the vault to
\* use nil, a list of one gives its element, a longer list is printed and
\* the user is asked
SwitchOnVaults ==
    /\ spc = "start"
    /\ opc = "running"
    /\ IF Len(synologyCoupleVaults) = 0
       THEN /\ spc' = "return"
            /\ UNCHANGED <<synologyCoupleVaultToUse, written, printCalls, opc>>
       ELSE IF Len(synologyCoupleVaults) = 1
       THEN /\ synologyCoupleVaultToUse' = 1
            /\ spc' = "return"
            /\ UNCHANGED <<written, printCalls, opc>>
       ELSE /\ SetOutState(ListVaults(OutState, synologyCoupleVaults))
            /\ spc' = "query"
            /\ UNCHANGED synologyCoupleVaultToUse
    /\ UNCHANGED <<VerboseFlag, OptionalInfoFlag, writers,
                   synologyCoupleVaults, queries, selected, orchestratorVars>>

\* one turn of the loop: the user enters a region and a vault; the loop goes
\* on while no vault of the list has both
QueryVault ==
    /\ spc = "query"
    /\ opc = "running"
    /\ synologyCoupleVaultToUse = 0
    /\ Len(queries) < MaxQueries
    /\ \E region \in Regions, vault \in VaultNames :
          /\ queries' = Append(queries, <<region, vault>>)
          /\ synologyCoupleVaultToUse' =
                getVaultIfExist(region, vault, synologyCoupleVaults)
          /\ IF getVaultIfExist(region, vault, synologyCoupleVaults) = 0
             THEN /\ SetOutState(Println(OutState, Info,
                        "Vault or region doesn't exist. Try again..."))
                  /\ spc' = "query"
             ELSE /\ spc' = "return"
                  /\ UNCHANGED <<written, printCalls, opc>>
    /\ UNCHANGED <<VerboseFlag, OptionalInfoFlag, writers,
                   synologyCoupleVaults, selected, orchestratorVars>>

\* the region and the name of the vault to use are returned, or two empty
\* strings when there is none
ReturnVault ==
    /\ spc = "return"
    /\ opc = "running"
    /\ IF synologyCoupleVaultToUse # 0
       THEN LET v == synologyCoupleVaults[synologyCoupleVaultToUse]
            IN /\ SetOutState(Println(OutState, OptionalInfo,
                    "Synology backup vault used: " \o v.Region \o ":" \o v.Name))
               /\ selected' = <<v.Region, v.Name>>
       ELSE /\ SetOutState(Println(OutState, Error,
                    "No synology backup vault found"))
            /\ selected' = <<"", "">>
    /\ spc' = "done"
    /\ UNCHANGED <<VerboseFlag, OptionalInfoFlag, writers,
                   synologyCoupleVaults, synologyCoupleVaultToUse, queries,
                   orchestratorVars>>

InitSelect ==
    /\ VerboseFlag = FALSE
    /\ OptionalInfoFlag \in BOOLEAN
    /\ writers \in {DefaultWriters,
                    InitOutputsWith("buffer", "buffer", "buffer", "buffer",
                                    "buffer")}
    /\ written = NothingWritten
    /\ printCalls = <<>>
    /\ opc = "running"
    /\ synologyCoupleVaults \in VaultLists
    /\ synologyCoupleVaultToUse = 0
    /\ queries = <<>>
    /\ selected = <<>>
    /\ spc = "start"
    /\ NotStarted

NextSelect ==
    \/ SwitchOnVaults
    \/ QueryVault
    \/ ReturnVault

SpecSelect == InitSelect /\ [][NextSelect]_vars

\* ------------------------------------------------------------------ helpers
\* of the claims
IsPrefixSeq(s, t) == Len(s) <= Len(t) /\ \A i \in 1..Len(s) : s[i] = t[i]

SelectArchive(log, a) == SelectSeq(log, LAMBDA e : e.archiveId = a)

Range(a, lo, hi) == [archiveId |-> a, lo |-> lo, hi |-> hi]
RangeOf(e) == Range(e.archiveId, e.lo, e.hi)
RangesOf(log) == [i \in 1..Len(log) |-> RangeOf(log[i])]

NoStartupFiles ==
    /\ \A a \in ArchiveIds : stagingAtStartup[a] < 0
    /\ \A e \in jobCache : ~e.jobId.cached

\* the context of the multipart tests
MultipartContext ==
    /\ speedInBytesBySec = 3496
    /\ archivesRetrievalMaxSize = 2 * S_1MB
    /\ archivePartRetrievalListMaxSize = 10

RECURSIVE Contiguous(_, _)
Contiguous(rs, from) ==
    \/ rs = <<>>
    \/ /\ Head(rs).lo = from
       /\ Head(rs).hi >= Head(rs).lo
       /\ Contiguous(Tail(rs), Head(rs).hi + 1)

\* the ranges rs, in order, are bytes from..to of the archive, each once
CoversExactly(rs, from, to) ==
    IF from > to THEN rs = <<>>
    ELSE rs # <<>> /\ Contiguous(rs, from) /\ rs[Len(rs)].hi = to

InRows(a) == RowsOf(file_info_tb, a) # {}
Loaded(a) == \E k \in 1..(archiveRows - 1) : ArchiveOrder[k] = a
FoundCalls(a) ==
    SelectSeq(initiateJobCalls, LAMBDA e : e.archiveId = a /\ e.found)

\* the staging bytes kept at startup: all of a complete staging file, else
\* the largest multiple of 1 MiB that the file holds
StartupKept(a) ==
    LET l == stagingAtStartup[a]
    IN IF l < 0 THEN 0
       ELSE IF l = DeclaredSize(a) THEN l
       ELSE l - (l % 1048576)

RECURSIVE SumOfSizes(_)
SumOfSizes(log) == IF log = <<>> THEN 0 ELSE Head(log).size + SumOfSizes(Tail(log))

\* bytes of the archive written to its staging file so far
BytesMaterialized(a) == StartupKept(a) + SumOfSizes(SelectArchive(chunks, a))

RECURSIVE SumLeft(_)
SumLeft(list) ==
    IF list = <<>> THEN 0
    ELSE (Head(list).size - Head(list).nextByteIndexToDownload) + SumLeft(Tail(list))

CeilDiv(n, c) == (n + c - 1) \div c

\* C1: every destination file that exists is exactly as long as the fileSize
\* of its FileRecord.
C1_DestinationLength ==
    \A i \in 1..Len(file_info_tb) :
        dest[i].exists => ContentLen(dest[i].content) = file_info_tb[i].fileSize

\* a finished run with a target shorter than the archive it shares
C1_Witness ==
    /\ pc = "done"
    /\ chunks # <<>>
    /\ \E i \in 1..Len(file_info_tb) :
        /\ dest[i].exists
        /\ file_info_tb[i].fileSize > 0
        /\ file_info_tb[i].fileSize < DeclaredSize(file_info_tb[i].archiveId)

\* C2: an archive shared by several FileRecords is retrieved once - the parts
\* planned for it never overlap and the InitiateJob ranges cover its declared
\* size once - and every target is the first fileSize bytes of the archive.
C2_SharedArchiveOnce ==
    /\ \A i \in 1..Len(file_info_tb) :
        dest[i].exists =>
            IsArchivePrefix(dest[i].content, file_info_tb[i].fileSize)
    /\ \A a \in ArchiveIds :
        LET rs == SelectArchive(emitted, a)
        IN /\ \A j \in 1..Len(rs) : \A k \in (j + 1)..Len(rs) : rs[j].hi < rs[k].lo
           /\ (pc = "done" /\ InRows(a) /\ a \notin unavailable /\ NoStartupFiles)
                => CoversExactly(FoundCalls(a), 0, DeclaredSize(a) - 1)

C2_Witness ==
    /\ pc = "done"
    /\ NoStartupFiles
    /\ \E i \in 1..Len(file_info_tb) : \E j \in 1..Len(file_info_tb) :
        /\ i # j
        /\ file_info_tb[i].archiveId = file_info_tb[j].archiveId
        /\ file_info_tb[i].archiveId \in ArchiveIds
        /\ dest[i].exists /\ dest[j].exists
        /\ Len(FoundCalls(file_info_tb[i].archiveId)) > 1

\* C3: every record of the zero-size sentinel archive gets an empty
\* destination file when its archive is taken from the cursor, and no
\* InitiateJob, DescribeJob or GetJobOutput call is ever made for it.
C3_ZeroSizeNoService ==
    /\ \A k \in 1..Len(initiateJobCalls) :
        initiateJobCalls[k].archiveId # "GlacierZeroSizeFile"
    /\ \A d \in describeJobCalls : d.archiveId # "GlacierZeroSizeFile"
    /\ \A k \in 1..Len(getJobOutputCalls) :
        getJobOutputCalls[k].archiveId # "GlacierZeroSizeFile"
    /\ \A i \in 1..Len(file_info_tb) :
        (/\ file_info_tb[i].archiveId = "GlacierZeroSizeFile"
         /\ file_info_tb[i].fileSize = 0
         /\ Loaded("GlacierZeroSizeFile"))
            => dest[i].exists /\ dest[i].content = <<>>

C3_Witness ==
    /\ pc = "done"
    /\ initiateJobCalls # <<>>
    /\ \E i \in 1..Len(file_info_tb) :
        /\ file_info_tb[i].archiveId = "GlacierZeroSizeFile"
        /\ dest[i].exists

\* C4 as stated: the sizes of the parts initiated and not yet fully downloaded
\* sum to at most speedInBytesBySec x 4 hours, when that is the budget.
C4_PartSizesWithinBudget ==
    archivesRetrievalMaxSize = speedInBytesBySec * RetrievalLatencySec
        => SumOfSizes(archivePartRetrieveList)
                <= speedInBytesBySec * RetrievalLatencySec

\* C4, amended: the bytes still to download of the parts initiated and not yet
\* fully downloaded sum to archivesRetrievalSize, which never exceeds the
\* budget archivesRetrievalMaxSize.
C4_BytesLeftWithinBudget ==
    /\ archivesRetrievalSize = SumLeft(archivePartRetrieveList)
    /\ archivesRetrievalSize <= archivesRetrievalMaxSize

\* a part initiated while an older one is half downloaded: the part sizes
\* exceed the budget, the bytes left do not
C4_Witness ==
    /\ Len(archivePartRetrieveList) >= 2
    /\ archivePartRetrieveList[1].nextByteIndexToDownload > 0
    /\ SumOfSizes(archivePartRetrieveList) > archivesRetrievalMaxSize

\* C5: the destination file of a record with fileSize > 0 exists only when
\* all declaredSize bytes of its archive have been written to the staging
\* file.
C5_DestinationAfterLastByte ==
    \A i \in 1..Len(file_info_tb) :
        (file_info_tb[i].fileSize > 0 /\ dest[i].exists)
            => BytesMaterialized(file_info_tb[i].archiveId)
                    = DeclaredSize(file_info_tb[i].archiveId)

\* a target shorter than its archive, of which more than the target's size but
\* not all is staged: the target does not exist yet
C5_Witness ==
    \E i \in 1..Len(file_info_tb) :
        LET a == file_info_tb[i].archiveId
        IN /\ a \in ArchiveIds
           /\ file_info_tb[i].fileSize > 0
           /\ chunks # <<>>
           /\ BytesMaterialized(a) > file_info_tb[i].fileSize
           /\ BytesMaterialized(a) < DeclaredSize(a)
           /\ ~dest[i].exists

\* C6: every chunk is appended to the staging file at the offset it has in the
\* archive, which is the staging length so far; the chunks of an archive are
\* contiguous from the bytes kept at startup, without gap or repeat.
C6_ChunksAscending ==
    /\ \A k \in 1..Len(chunks) :
        chunks[k].size > 0 /\ chunks[k].offset = chunks[k].at
    /\ \A a \in ArchiveIds :
        LET cs == SelectArchive(chunks, a)
        IN /\ cs # <<>> => cs[1].offset = StartupKept(a)
           /\ \A j \in 1..(Len(cs) - 1) :
                cs[j + 1].offset = cs[j].offset + cs[j].size

\* a part was initiated between two chunks of its archive, and a chunk of it
\* has been written
C6_Witness ==
    \E a \in ArchiveIds :
        /\ Len(SelectArchive(chunks, a)) >= 3
        /\ Len(SelectArchive(emitted, a)) >= 2
        /\ chunks[Len(chunks)].archiveId = a
        /\ chunks[Len(chunks)].offset
                > SelectArchive(emitted, a)[2].lo

\* C7 as stated: the ranges of the InitiateJob calls of an archive are
\* contiguous and cover the bytes still to retrieve, up to declaredSize - 1.
C7_InitiatedRangesCover ==
    \A a \in ArchiveIds :
        /\ FoundCalls(a) # <<>> => Contiguous(FoundCalls(a), FoundCalls(a)[1].lo)
        /\ (pc = "done" /\ InRows(a) /\ a \notin unavailable)
            => CoversExactly(FoundCalls(a), StartupKept(a), DeclaredSize(a) - 1)

\* C7, amended: the ranges of the parts the planner emits for an archive, each
\* initiated by InitiateJob or taken from the job cache, are contiguous and
\* non-overlapping in emission order, and cover the bytes still to retrieve.
C7_EmittedRangesContiguous ==
    \A a \in ArchiveIds :
        /\ Contiguous(SelectArchive(emitted, a), StartupKept(a))
        /\ (pc = "done" /\ InRows(a) /\ a \notin unavailable)
            => CoversExactly(SelectArchive(emitted, a), StartupKept(a),
                             DeclaredSize(a) - 1)

\* a finished archive of three parts or more, one of them from the job cache
C7_Witness ==
    /\ pc = "done"
    /\ \E a \in ArchiveIds :
        /\ a \notin unavailable
        /\ Len(SelectArchive(emitted, a)) >= 3
        /\ \E k \in 1..Len(emitted) : emitted[k].archiveId = a /\ emitted[k].cached

\* the split of C8: ceil(N/C) parts [0,C-1], [C,2C-1], ..., [(k-1)C, N-1]
CeilingSplit(a, n, c) ==
    [k \in 1..CeilDiv(n, c) |-> Range(a, (k - 1) * c, Min(k * c, n) - 1)]

\* C8 as stated: an archive of declared size N planned with ceiling C gets
\* exactly ceil(N/C) parts, [0,C-1], [C,2C-1], ..., [(k-1)C, N-1].
C8_CeilingSplit ==
    \A a \in ArchiveIds :
        (pc = "done" /\ InRows(a) /\ a \notin unavailable /\ NoStartupFiles)
            => RangesOf(FoundCalls(a))
                    = CeilingSplit(a, DeclaredSize(a), archivesRetrievalMaxSize)

\* C8, amended: the parts are contiguous from 0 to N-1, none larger than the
\* ceiling C, each but the last of the archive a multiple of 1 MiB - so there
\* are at least ceil(N/C) of them - and an archive that fits the ceiling and
\* is planned first is one part [0, N-1].
C8_PartsWithinCeiling ==
    \A a \in ArchiveIds :
        (pc = "done" /\ InRows(a) /\ a \notin unavailable /\ NoStartupFiles)
            => LET rs == RangesOf(FoundCalls(a))
                   n == DeclaredSize(a)
               IN /\ CoversExactly(rs, 0, n - 1)
                  /\ \A k \in 1..Len(rs) :
                        /\ rs[k].hi - rs[k].lo + 1 <= archivesRetrievalMaxSize
                        /\ k < Len(rs) => (rs[k].hi + 1) % 1048576 = 0
                  /\ Len(rs) >= CeilDiv(n, archivesRetrievalMaxSize)
                  /\ (n <= archivesRetrievalMaxSize /\ ArchiveOrder[1] = a)
                        => rs = <<Range(a, 0, n - 1)>>

\* a finished archive with more parts than ceil(N/C)
C8_Witness ==
    /\ pc = "done"
    /\ NoStartupFiles
    /\ \E a \in ArchiveIds :
        /\ a \notin unavailable
        /\ Len(FoundCalls(a))
                > CeilDiv(DeclaredSize(a), archivesRetrievalMaxSize)

\* C10 as stated: with a staging file of length L at startup, the parts
\* emitted for the archive cover exactly [L, N-1].
C10_ResumeAtLength ==
    \A a \in ArchiveIds :
        (/\ pc = "done" /\ InRows(a) /\ a \notin unavailable
         /\ stagingAtStartup[a] >= 0)
            => CoversExactly(SelectArchive(emitted, a), stagingAtStartup[a],
                             DeclaredSize(a) - 1)

\* C10, amended: with a staging file of length L < N at startup, the parts
\* emitted for the archive cover exactly [L - L mod 1 MiB, N-1] and nothing
\* below; with L = N no part is emitted.
C10_ResumeAtMegabyte ==
    \A a \in ArchiveIds :
        stagingAtStartup[a] >= 0 =>
            LET l == stagingAtStartup[a]
                n == DeclaredSize(a)
                from == IF l = n THEN n ELSE l - (l % 1048576)
                rs == SelectArchive(emitted, a)
            IN /\ \A k \in 1..Len(rs) : rs[k].lo >= from /\ rs[k].hi < n
               /\ rs # <<>> => rs[1].lo = from
               /\ (pc = "done" /\ a \notin unavailable)
                    => CoversExactly(rs, from, n - 1)

\* a finished run that found a staging file whose length is no multiple of
\* 1 MiB and lies above 1 MiB
C10_Witness ==
    /\ pc = "done"
    /\ \E a \in ArchiveIds :
        /\ a \notin unavailable
        /\ stagingAtStartup[a] > 1048576
        /\ stagingAtStartup[a] % 1048576 # 0
        /\ stagingAtStartup[a] < DeclaredSize(a)
        /\ SelectArchive(emitted, a) # <<>>

\* C9: one archive of 4194304 bytes, 2 MiB retrieval ceiling, 3496 B/s: three
\* jobs are initiated, each once, for ranges 0-2097151, 2097152-3145727 and
\* 3145728-4194303, and the destination file is 4194304 bytes long.
MultipartScenario ==
    /\ file_info_tb = <<[archiveId |-> "archiveId1", fileSize |-> 4194304]>>
    /\ MultipartContext
    /\ NoStartupFiles
    /\ unavailable = {}

MultipartRanges ==
    <<Range("archiveId1", 0, 2097151),
      Range("archiveId1", 2097152, 3145727),
      Range("archiveId1", 3145728, 4194303)>>

C9_MultipartThreeJobs ==
    MultipartScenario =>
        /\ IsPrefixSeq(RangesOf(initiateJobCalls), MultipartRanges)
        /\ pc = "done" =>
            /\ RangesOf(initiateJobCalls) = MultipartRanges
            /\ dest[1].exists
            /\ ContentLen(dest[1].content) = 4194304

C9_Witness ==
    /\ MultipartScenario
    /\ pc = "done"
    /\ Len(initiateJobCalls) = 3
    /\ dest[1].exists

\* the GetJobOutput ranges the multipart test expects, in order
MultipartOutputs ==
    <<<<1, 0, 1048799>>, <<1, 1048800, 2097151>>, <<2, 0, 447>>,
      <<2, 448, 1048575>>, <<3, 0, 671>>, <<3, 672, 1048575>>>>

MultipartOutputsAsInTest ==
    MultipartScenario /\ pc = "done" =>
        [i \in 1..Len(getJobOutputCalls) |->
            <<getJobOutputCalls[i].jobId.seq, getJobOutputCalls[i].lo,
              getJobOutputCalls[i].hi>>] = MultipartOutputs

\* C11: a staging file found at startup with a length L that is no multiple of
\* 1 MiB makes retrieval restart at the largest multiple of 1 MiB not above
\* L; the staging bytes from that boundary on are discarded, and the final
\* file is the staging bytes below the boundary followed by the downloaded
\* bytes. With 1048579 bytes staged of a 1048581-byte archive, the one
\* InitiateJob has range 1048576-1048580.
ResumedContent(l, n) ==
    LET from == (l \div 1048576) * 1048576
    IN (IF from > 0 THEN <<[src |-> "staged", lo |-> 0, hi |-> from - 1]>>
        ELSE <<>>)
       \o <<[src |-> "job", lo |-> from, hi |-> n - 1]>>

AlreadyStartedScenario ==
    /\ file_info_tb = <<[archiveId |-> "archiveId1", fileSize |-> 1048581]>>
    /\ stagingAtStartup["archiveId1"] = 1048579
    /\ \A e \in jobCache : ~e.jobId.cached

C11_ResumeDiscardsPastBoundary ==
    /\ \A a \in ArchiveIds :
        LET l == stagingAtStartup[a]
            n == DeclaredSize(a)
            from == (l \div 1048576) * 1048576
            rs == SelectArchive(emitted, a)
        IN (l > 0 /\ l < n /\ l % 1048576 # 0) =>
            /\ rs # <<>> => rs[1].lo = from
            /\ (Loaded(a) /\ staging[a].exists) =>
                    \A k \in 1..Len(staging[a].content) :
                        staging[a].content[k].src = "staged"
                            => staging[a].content[k].hi < from
            /\ \A i \in RowsOf(file_info_tb, a) :
                    dest[i].exists =>
                        dest[i].content
                            = Truncate(ResumedContent(l, n), file_info_tb[i].fileSize)
    /\ AlreadyStartedScenario =>
        /\ IsPrefixSeq(RangesOf(initiateJobCalls),
                       <<Range("archiveId1", 1048576, 1048580)>>)
        /\ (pc = "done" /\ unavailable = {}) =>
            /\ RangesOf(initiateJobCalls)
                    = <<Range("archiveId1", 1048576, 1048580)>>
            /\ dest[1] = [exists |-> TRUE,
                          content |-> <<[src |-> "staged", lo |-> 0, hi |-> 1048575],
                                        [src |-> "job", lo |-> 1048576, hi |-> 1048580]>>]

C11_Witness ==
    /\ AlreadyStartedScenario
    /\ pc = "done"
    /\ Len(initiateJobCalls) = 1
    /\ Len(getJobOutputCalls) = 1
    /\ dest[1].exists

\* C12: an archive whose staging file at startup is as long as its declared
\* size gets no InitiateJob, no DescribeJob and no GetJobOutput call, and once
\* taken from the cursor every FileRecord that targets it has its destination
\* file, made of the staging content.
StagingCompleteAtStartup(a) ==
    InRows(a) /\ stagingAtStartup[a] = DeclaredSize(a)

C12_CompleteStagingNoService ==
    \A a \in ArchiveIds :
        StagingCompleteAtStartup(a) =>
            /\ \A k \in 1..Len(initiateJobCalls) : initiateJobCalls[k].archiveId # a
            /\ \A d \in describeJobCalls : d.archiveId # a
            /\ \A k \in 1..Len(getJobOutputCalls) : getJobOutputCalls[k].archiveId # a
            /\ \A k \in 1..Len(emitted) : emitted[k].archiveId # a
            /\ Loaded(a) =>
                \A i \in RowsOf(file_info_tb, a) :
                    dest[i] = [exists |-> TRUE,
                               content |->
                                 Truncate(<<[src |-> "staged", lo |-> 0,
                                             hi |-> DeclaredSize(a) - 1]>>,
                                          file_info_tb[i].fileSize)]

\* two records share an archive whose staging file was complete at startup,
\* and the run is over
C12_Witness ==
    /\ pc = "done"
    /\ \E a \in ArchiveIds :
        /\ StagingCompleteAtStartup(a)
        /\ Cardinality(RowsOf(file_info_tb, a)) = 2
        /\ \A i \in RowsOf(file_info_tb, a) : dest[i].exists

\* C13: once InitiateJob has not found an archive, no further InitiateJob is
\* made and no part is emitted for it, and its records get no destination
\* file; the run goes on - it always has a next step until it is done - and
\* at its end every record of every other archive, before and after in row
\* order, has its file with the bytes of its archive. For three one-byte
\* records of which the middle archive is not found, InitiateJob is called
\* once for each archive with range 0-0.
NotFoundScenario ==
    /\ file_info_tb = <<[archiveId |-> "archiveId1", fileSize |-> 1],
                        [archiveId |-> "archiveId2", fileSize |-> 1],
                        [archiveId |-> "archiveId3", fileSize |-> 1]>>
    /\ unavailable = {"archiveId2"}

C13_NotFoundSkipsArchive ==
    /\ \A k \in 1..Len(initiateJobCalls) :
        ~initiateJobCalls[k].found =>
            /\ initiateJobCalls[k].archiveId \in unavailable
            /\ \A j \in (k + 1)..Len(initiateJobCalls) :
                initiateJobCalls[j].archiveId # initiateJobCalls[k].archiveId
    /\ \A a \in unavailable :
        /\ \A k \in 1..Len(emitted) : emitted[k].archiveId # a
        /\ archiveRetrieve.archiveId # a
        /\ \A i \in RowsOf(file_info_tb, a) : ~dest[i].exists
    /\ pc # "done" => ENABLED Next
    /\ pc = "done" =>
        \A i \in 1..Len(file_info_tb) :
            file_info_tb[i].archiveId \notin unavailable =>
                /\ dest[i].exists
                /\ IsArchivePrefix(dest[i].content, file_info_tb[i].fileSize)
    /\ (NotFoundScenario /\ pc = "done") =>
        /\ RangesOf(initiateJobCalls)
                = <<Range("archiveId1", 0, 0), Range("archiveId2", 0, 0),
                    Range("archiveId3", 0, 0)>>
        /\ dest[1].exists /\ ~dest[2].exists /\ dest[3].exists

\* the run is over: of three archives the middle one was not found, the
\* first and the third were downloaded
C13_Witness ==
    /\ pc = "done"
    /\ Len(file_info_tb) = 3
    /\ ArchiveOrder = <<file_info_tb[1].archiveId, file_info_tb[2].archiveId,
                        file_info_tb[3].archiveId>>
    /\ unavailable = {file_info_tb[2].archiveId}
    /\ dest[1].exists /\ ~dest[2].exists /\ dest[3].exists
    /\ Len(getJobOutputCalls) >= 2

\* C14: when the job cache holds at startup a job for the archive and byte
\* range of a part, no InitiateJob is made for that range, the part is emitted
\* with the cached job id, and that id is the one DescribeJob is called with
\* before, and GetJobOutput for, every byte of the part.
StartupJobs == {e \in jobCache : e.jobId.cached}

EmittedJobIds(a) ==
    {emitted[k].jobId : k \in {j \in 1..Len(emitted) : emitted[j].archiveId = a}}

C14_CachedJobReused ==
    /\ \A e \in StartupJobs :
        /\ \A k \in 1..Len(initiateJobCalls) :
                RangeOf(initiateJobCalls[k]) # RangeOf(e)
        /\ \A k \in 1..Len(emitted) :
                RangeOf(emitted[k]) = RangeOf(e) =>
                    /\ emitted[k].jobId = e.jobId
                    /\ \A j \in 1..Len(chunks) :
                        (/\ chunks[j].archiveId = e.archiveId
                         /\ chunks[j].offset >= e.lo
                         /\ chunks[j].offset <= e.hi)
                            => /\ getJobOutputCalls[j].jobId = e.jobId
                               /\ [archiveId |-> e.archiveId, jobId |-> e.jobId]
                                    \in describeJobCalls
    /\ \A d \in describeJobCalls : d.jobId \in EmittedJobIds(d.archiveId)
    /\ \A k \in 1..Len(getJobOutputCalls) :
            getJobOutputCalls[k].jobId
                \in EmittedJobIds(getJobOutputCalls[k].archiveId)

\* a finished archive of which one part came from the cache and was
\* downloaded, and another was initiated
C14_Witness ==
    /\ pc = "done"
    /\ \E e \in StartupJobs :
        /\ \E k \in 1..Len(emitted) : emitted[k].jobId = e.jobId
        /\ \E k \in 1..Len(getJobOutputCalls) : getJobOutputCalls[k].jobId = e.jobId
        /\ \E k \in 1..Len(initiateJobCalls) :
            initiateJobCalls[k].archiveId = e.archiveId /\ initiateJobCalls[k].found
        /\ \E i \in RowsOf(file_info_tb, e.archiveId) : dest[i].exists

\* the bytes of a content, whatever they were read from: the ranges of archive
\* bytes, adjacent ranges merged
RECURSIVE Bytes(_)
Bytes(c) ==
    IF c = <<>> THEN <<>>
    ELSE LET rest == Bytes(Tail(c))
         IN IF rest # <<>> /\ Head(c).hi + 1 = rest[1][1]
            THEN <<(<<Head(c).lo, rest[1][2]>>)>> \o Tail(rest)
            ELSE <<(<<Head(c).lo, Head(c).hi>>)>> \o rest

\* the same files exist in both destination trees, with the same bytes
SameTree(d1, d2) ==
    /\ DOMAIN d1 = DOMAIN d2
    /\ \A i \in DOMAIN d1 :
        /\ d1[i].exists = d2[i].exists
        /\ Bytes(d1[i].content) = Bytes(d2[i].content)

FailedCalls(log) == SelectSeq(log, LAMBDA e : ~e.found)

\* C15 as stated: a run after another on the same inputs ends with the same
\* destination tree and has made strictly fewer InitiateJob calls.
C15_SecondRunFewerCalls ==
    (pc = "done" /\ previousRun.runs >= 1) =>
        /\ SameTree(dest, previousRun.dest)
        /\ Len(initiateJobCalls) < Len(previousRun.initiateJobCalls)

\* C15, amended: a run after another on the same inputs initiates no job for
\* an archive and range the run before initiated one for, and ends with the
\* same destination tree; when the run before found no staging file and no
\* cached job at startup, it makes one InitiateJob call for each archive the run before did
\* not find, in the same order, none of them found, and no other - fewer
\* calls than the run before made if and only if that run initiated a job.
C15_SecondRunNoRepeat ==
    previousRun.runs >= 1 =>
        /\ \A k \in 1..Len(initiateJobCalls) :
            \A j \in 1..Len(previousRun.initiateJobCalls) :
                previousRun.initiateJobCalls[j].found =>
                    RangeOf(initiateJobCalls[k])
                        # RangeOf(previousRun.initiateJobCalls[j])
        /\ pc = "done" =>
            /\ SameTree(dest, previousRun.dest)
            /\ (/\ \A a \in DOMAIN previousRun.stagingAtStartup :
                        previousRun.stagingAtStartup[a] < 0
                /\ previousRun.jobsAtStartup = {})
                => /\ FailedCalls(initiateJobCalls) = initiateJobCalls
                   /\ [k \in 1..Len(initiateJobCalls) |->
                            initiateJobCalls[k].archiveId]
                        = [k \in 1..Len(FailedCalls(previousRun.initiateJobCalls)) |->
                            FailedCalls(previousRun.initiateJobCalls)[k].archiveId]

\* a second run is over: the first initiated several jobs, the second none
C15_Witness ==
    /\ pc = "done"
    /\ previousRun.runs >= 1
    /\ previousRun.jobsAtStartup = {}
    /\ \A a \in ArchiveIds : previousRun.stagingAtStartup[a] < 0
    /\ Len(FoundCalls("archiveId1")) = 0
    /\ Len(previousRun.initiateJobCalls) >= 3
    /\ getJobOutputCalls # <<>>
    /\ \E i \in 1..Len(file_info_tb) : dest[i].exists

\* C16: a step that removes the staging file of an archive leaves every
\* FileRecord that targets the archive with its destination file, cut from
\* the staging content; so whenever the staging file of an archive that had
\* one is gone, all its targets exist. At the end of a run no staging file
\* remains of any archive the store found.
HadStaging(a) ==
    stagingAtStartup[a] >= 0 \/ SelectArchive(chunks, a) # <<>>

StagingRemovedAfterTargets ==
    \A a \in ArchiveIds :
        (staging[a].exists /\ ~staging'[a].exists) =>
            \A i \in RowsOf(file_info_tb, a) :
                LET kept == Truncate(staging[a].content, file_info_tb[i].fileSize)
                IN /\ dest'[i].exists
                   /\ ContentLen(dest'[i].content) = file_info_tb[i].fileSize
                   /\ Bytes(Truncate(dest'[i].content, ContentLen(kept)))
                        = Bytes(kept)

NoStagingLeft ==
    /\ \A a \in ArchiveIds :
        (HadStaging(a) /\ ~staging[a].exists) =>
            \A i \in RowsOf(file_info_tb, a) : dest[i].exists
    /\ pc = "done" =>
        \A a \in DOMAIN staging : staging[a].exists => a \in unavailable

C16_StagingRemovedLast == []NoStagingLeft /\ [][StagingRemovedAfterTargets]_vars

\* the run is over: an archive resumed from its staging file and one
\* downloaded from its first byte are materialized, no staging file is left
C16_Witness ==
    /\ pc = "done"
    /\ unavailable = {}
    /\ \E a \in ArchiveIds : \E b \in ArchiveIds :
        /\ a # b
        /\ stagingAtStartup[a] > 0
        /\ SelectArchive(chunks, a) # <<>>
        /\ Len(SelectArchive(chunks, b)) >= 2
    /\ \A a \in DOMAIN staging : ~staging[a].exists
    /\ \A i \in 1..Len(file_info_tb) : dest[i].exists

\* C17: with a non-empty filter list, a record is among the rows retrieved if
\* and only if its basePath matches a pattern, InitiateJob is called for the
\* archives of such records only, and at the end of a run that found every
\* archive the files produced are those of the matching records. '?' matches
\* exactly one character, "*.info" matches in any directory, "data/folder/*"
\* matches under data/folder and not under data/folderno. Of the twelve
\* records of the filter scenario seven files are produced, none for the
\* other five.
MatchingPaths ==
    {mapping[i].basePath :
        i \in {j \in 1..Len(mapping) :
                 \E k \in 1..Len(filters) :
                    GlobMatch(filters[k], mapping[j].basePath)}}

ProducedPaths ==
    {file_info_tb[i].basePath : i \in {j \in 1..Len(file_info_tb) : dest[j].exists}}

C17_FilteredRecordsOnly ==
    /\ GlobMatch("data/file??.bin", "data/file41.bin")
    /\ ~GlobMatch("data/file??.bin", "data/filenop.bin")
    /\ ~GlobMatch("data/file??.bin", "data/file4.bin")
    /\ GlobMatch("*.info", "data/file4.info")
    /\ GlobMatch("*.info", "data/otherfolder/file3.info")
    /\ GlobMatch("data/folder/*", "data/folder/file2.bin")
    /\ ~GlobMatch("data/folder/*", "data/folderno/no.bin")
    /\ filters # <<>> =>
        /\ {file_info_tb[i].basePath : i \in 1..Len(file_info_tb)} = MatchingPaths
        /\ \A i \in 1..Len(file_info_tb) :
            \E j \in 1..Len(mapping) : mapping[j] = file_info_tb[i]
        /\ \A k \in 1..Len(initiateJobCalls) :
            \E j \in 1..Len(mapping) :
                /\ mapping[j].archiveId = initiateJobCalls[k].archiveId
                /\ mapping[j].basePath \in MatchingPaths
        /\ ProducedPaths \subseteq MatchingPaths
        /\ (pc = "done" /\ unavailable = {}) => ProducedPaths = MatchingPaths
    /\ (mapping = FilterScenarioRows /\ filters = TestFilters) =>
        /\ MatchingPaths =
                {"data/folder/file1.txt", "data/folder/file2.bin",
                 "data/otherfolder/file3.info", "data/file4.info",
                 "data/file41.bin", "data/file42.bin", "data/iwantthis"}
        /\ (pc = "done" /\ unavailable = {}) =>
            /\ Cardinality(ProducedPaths) = 7
            /\ ProducedPaths \cap
                    {"data/folderno/no.bin", "data/no", "data/otherfolder/no",
                     "data/otherfolder/no.txt", "data/filenop.bin"} = {}

\* the filter scenario is over, seven files produced
C17_Witness ==
    /\ mapping = FilterScenarioRows
    /\ filters = TestFilters
    /\ pc = "done"
    /\ Len(getJobOutputCalls) = 7
    /\ Cardinality(ProducedPaths) = 7

\* C18: the first line printed, before any retrieval, is "<N>B to restore"
\* with N the sum of the declared sizes of the distinct archives of the
\* records that pass the filter: a shared archive counts once, a rejected
\* record does not count. The five records of the total size scenario, three
\* of them passing with two archives of 2 bytes, give "4B to restore".
RECURSIVE SumOver(_, _)
SumOver(f, S) ==
    IF S = {} THEN 0
    ELSE LET x == CHOOSE y \in S : TRUE IN f[x] + SumOver(f, S \ {x})

PassingRecords ==
    {j \in 1..Len(mapping) :
        filters = <<>>
        \/ \E k \in 1..Len(filters) : GlobMatch(filters[k], mapping[j].basePath)}

BytesToRestore ==
    LET archives == {mapping[j].archiveId : j \in PassingRecords}
        size == [a \in archives |->
                    SetMax({mapping[j].fileSize :
                                j \in {k \in PassingRecords : mapping[k].archiveId = a}})]
    IN SumOver(size, archives)

C18_BytesToRestoreLine ==
    /\ Len(output) >= 1
    /\ output[1] = ToString(BytesToRestore) \o "B to restore"
    /\ (mapping = TotalSizeScenarioRows /\ filters = TestFilters) =>
        /\ Cardinality(PassingRecords) = 3
        /\ output[1] = "4B to restore"

\* the total size scenario is over
C18_Witness ==
    /\ mapping = TotalSizeScenarioRows
    /\ filters = TestFilters
    /\ output = <<"4B to restore">>
    /\ pc = "done"
    /\ Len(getJobOutputCalls) = 2

\* ------------------------------------------------------------------ C19
NonPollCalls == SelectSeq(glacierCalls, LAMBDA c : c.op # "DescribeJob")

\* the job has been described as completed before call k
CompletedBefore(id, k) ==
    \E j \in 1..(k - 1) : glacierCalls[j] = DescribeCall(id, "completed")

FirstTime == ~mappingEnv.fileExists /\ mappingEnv.cache = EmptyCache

FirstTimeLines ==
    <<"Job to find mapping archive id has started (can last up to 4 hours): inventoryMappingJobId",
      "Job has finished: inventoryMappingJobId",
      "Job to retrieve mapping archive has started (can last up to 4 hours): retrieveMappingJobId",
      "Job has finished: retrieveMappingJobId",
      "Mapping archive has been downloaded">>

FirstTimeCalls ==
    LET first == mappingEnv.archiveList[1] IN
    <<[op |-> "InitiateJob", type |-> "inventory-retrieval", limit |-> "2",
       jobId |-> "inventoryMappingJobId"],
      [op |-> "GetJobOutput", jobId |-> "inventoryMappingJobId"],
      [op |-> "InitiateJob", type |-> "archive-retrieval",
       archiveId |-> first.ArchiveId,
       range |-> IF first.Size = 42 THEN "0-41" ELSE "0-0",
       jobId |-> "retrieveMappingJobId"],
      [op |-> "GetJobOutput", jobId |-> "retrieveMappingJobId"]>>

\* C19: with no local mapping file and an empty RegionVaultCache the inventory
\* job is initiated and completes, then a retrieval job is initiated for the
\* first archive of the inventory over "0-(Size-1)" and completes, and the run
\* ends with exactly the five lines started, finished, started, finished,
\* downloaded
C19_FirstTimeFiveLines ==
    FirstTime =>
        /\ IsPrefixSeq(output, FirstTimeLines)
        /\ IsPrefixSeq(NonPollCalls, FirstTimeCalls)
        /\ \A k \in 1..Len(glacierCalls) :
               LET c == glacierCalls[k] IN
               /\ c.op = "DescribeJob" =>
                      \E j \in 1..(k - 1) :
                          /\ glacierCalls[j].op = "InitiateJob"
                          /\ glacierCalls[j].jobId = c.jobId
               /\ c.op = "GetJobOutput" => CompletedBefore(c.jobId, k)
               /\ (c.op = "InitiateJob" /\ c.type = "archive-retrieval") =>
                      /\ k > 1
                      /\ glacierCalls[k - 1] = OutputCall("inventoryMappingJobId")
        /\ mpc # "done" => ENABLED NextMapping
        /\ mpc = "done" =>
               /\ output = FirstTimeLines
               /\ NonPollCalls = FirstTimeCalls
               /\ mappingFile = [exists |-> TRUE, content |-> MappingContent]

C19_Witness ==
    /\ FirstTime
    /\ mpc = "done"
    /\ Len(output) = 5
    /\ mappingEnv.archiveList[1].Size = 42
    /\ Len(mappingEnv.archiveList) = 2
    /\ Polls("inventoryMappingJobId") > 0
    /\ \E k \in 1..Len(glacierCalls) :
           /\ glacierCalls[k].op = "InitiateJob"
           /\ glacierCalls[k].type = "archive-retrieval"
           /\ glacierCalls[k].range = "0-41"

\* ------------------------------------------------------------------ C20
StartupJobId(phase) ==
    IF phase = "inventory" THEN mappingEnv.cache.inventoryJobId
    ELSE mappingEnv.cache.retrievalJobId

JobType(phase) ==
    IF phase = "inventory" THEN "inventory-retrieval" ELSE "archive-retrieval"

IsDescribeOf(c, id) == c.op = "DescribeJob" /\ c.jobId = id

\* index of the first DescribeJob of the job, 0 when there is none
FirstDescribe(id) ==
    LET S == {k \in 1..Len(glacierCalls) : IsDescribeOf(glacierCalls[k], id)}
    IN IF S = {} THEN 0 ELSE CHOOSE k \in S : \A j \in S : k <= j

InProgressAtStartup(phase) ==
    LET id == StartupJobId(phase)
    IN /\ id # ""
       /\ FirstDescribe(id) > 0
       /\ glacierCalls[FirstDescribe(id)].answer = "inProgress"

InProgressLine(phase, id) ==
    IF phase = "inventory"
    THEN "Job to find mapping archive id is in progress (can last up to 4 hours): " \o id
    ELSE "Job to retrieve mapping archive is in progress (can last up to 4 hours): " \o id

HasStartedLine(phase, id) ==
    IF phase = "inventory"
    THEN "Job to find mapping archive id has started (can last up to 4 hours): " \o id
    ELSE "Job to retrieve mapping archive has started (can last up to 4 hours): " \o id

\* line i is the text, behind the prompt or on its own
Printed(i, text) == output[i] = text \/ output[i] = AfterPrompt(text)

PhaseOver(phase) ==
    IF phase = "inventory"
    THEN mpc \in {"inventoryOutput", "retrieve", "retrieveWait",
                  "retrieveOutput", "done"}
    ELSE mpc \in {"retrieveOutput", "done"}

CachedJobInProgress(phase) ==
    LET id == StartupJobId(phase)
        first == FirstDescribe(id)
    IN InProgressAtStartup(phase) =>
        /\ \A k \in 1..Len(glacierCalls) :
               LET c == glacierCalls[k] IN
               /\ c.op = "InitiateJob" => c.type # JobType(phase)
               \* from the first DescribeJob on, the job is polled until it
               \* has completed
               /\ (k > first /\ ~CompletedBefore(id, k)) => IsDescribeOf(c, id)
        /\ \E i \in 1..Len(output) :
               /\ Printed(i, InProgressLine(phase, id))
               /\ \A j \in 1..Len(output) :
                      Printed(j, InProgressLine(phase, id)) => j = i
               /\ i < Len(output) =>
                      output[i + 1] = "Job has finished: " \o id
               /\ i = Len(output) <=> ~CompletedBefore(id, Len(glacierCalls) + 1)
        /\ \A i \in 1..Len(output) :
               /\ ~Printed(i, HasStartedLine(phase, id))
               /\ ~Printed(i, HasStartedLine(phase, NewJobId(phase)))
        /\ PhaseOver(phase) =>
               \E i \in 1..Len(output) : output[i] = "Job has finished: " \o id
        /\ ~PhaseOver(phase) => ENABLED NextMapping

\* C20: in either mapping phase, when the job id of the phase is cached and
\* the first DescribeJob reports the job not completed, no InitiateJob is
\* issued for the phase, the phase prints the "is in progress" line with the
\* cached id and no "has started" line, polls until the job has completed and
\* then prints "Job has finished" with that id
C20_CachedJobInProgress ==
    /\ CachedJobInProgress("inventory")
    /\ CachedJobInProgress("retrieve")

C20_Witness ==
    /\ InProgressAtStartup("inventory")
    /\ mpc = "done"
    /\ Polls(StartupJobId("inventory")) = MaxPolls
    /\ output[1] = InProgressLine("inventory", "inventoryMappingJobId")
    /\ output[2] = "Job has finished: inventoryMappingJobId"
    /\ Len(output) = 5

\* ------------------------------------------------------------------ C21
NotFoundAtStartup(phase) ==
    LET id == StartupJobId(phase)
    IN /\ id # ""
       /\ FirstDescribe(id) > 0
       /\ glacierCalls[FirstDescribe(id)].answer = "notFound"

NotFoundWarning(phase) ==
    IF phase = "inventory"
    THEN "WARNING: Inventory job cahed for mapping vaul was not found"
    ELSE "WARNING: Retrieve mapping archive job cached was not found"

CachedJobNotFound(phase) ==
    LET old == StartupJobId(phase)
        new == NewJobId(phase)
        first == FirstDescribe(old)
    IN NotFoundAtStartup(phase) =>
        /\ old # new
        /\ Len(glacierCalls) > first
        /\ glacierCalls[first + 1].op = "InitiateJob"
        /\ glacierCalls[first + 1].type = JobType(phase)
        /\ glacierCalls[first + 1].jobId = new
        /\ \A k \in 1..Len(glacierCalls) :
               LET c == glacierCalls[k] IN
               /\ k # first => c.jobId # old
               /\ (c.op = "InitiateJob" /\ c.type = JobType(phase)) =>
                      k = first + 1
        /\ CachedJobId(phase) \in {new, ""}
        /\ CachedJobId(phase) = "" => mpc = "done"
        /\ \E i \in 1..(Len(output) - 1) :
               /\ Printed(i, NotFoundWarning(phase))
               /\ output[i + 1] = HasStartedLine(phase, new)
               /\ \A j \in 1..Len(output) :
                      /\ Printed(j, NotFoundWarning(phase)) => j = i
                      /\ output[j] = HasStartedLine(phase, new) => j = i + 1
        /\ \A j \in 1..Len(output) :
               /\ ~Printed(j, InProgressLine(phase, old))
               /\ ~Printed(j, InProgressLine(phase, new))
               /\ output[j] # "Job has finished: " \o old
        /\ PhaseOver(phase) =>
               \E j \in 1..Len(output) : output[j] = "Job has finished: " \o new
        /\ mpc = "done" =>
               \E k \in 1..Len(glacierCalls) : glacierCalls[k] = OutputCall(new)
        /\ ~PhaseOver(phase) => ENABLED NextMapping

\* C21: in either mapping phase, when DescribeJob of the cached job id fails
\* with not-found, the phase prints its warning, initiates a new job of the
\* same kind, prints "has started" with the id of the new job, and every later
\* call and line of the phase carries the new id
C21_CachedJobNotFound ==
    /\ CachedJobNotFound("inventory")
    /\ CachedJobNotFound("retrieve")

C21_Witness ==
    /\ NotFoundAtStartup("inventory")
    /\ mpc = "done"
    /\ output =
          <<"WARNING: Inventory job cahed for mapping vaul was not found",
            "Job to find mapping archive id has started (can last up to 4 hours): inventoryMappingJobId",
            "Job has finished: inventoryMappingJobId",
            "Job to retrieve mapping archive has started (can last up to 4 hours): retrieveMappingJobId",
            "Job has finished: retrieveMappingJobId",
            "Mapping archive has been downloaded">>

\* ------------------------------------------------------------------ C22
DoneAtStartup(phase) ==
    LET id == StartupJobId(phase)
    IN /\ id # ""
       /\ FirstDescribe(id) > 0
       /\ glacierCalls[FirstDescribe(id)].answer = "completed"

HasLine(line) == \E i \in 1..Len(output) : Printed(i, line)

\* the phase has printed that its job has started or is in progress
Announced(phase, id) ==
    HasLine(HasStartedLine(phase, id)) \/ HasLine(InProgressLine(phase, id))

JobIds == KnownJobIds \cup {"unknownInventoryMappingJobId",
                            "unknownRetrieveMappingJobId"}

\* C22 as stated: a cached retrieval job completed at startup still gets its
\* "Job has finished" line before "Mapping archive has been downloaded"
C22_FinishedAfterDone ==
    (DoneAtStartup("retrieve") /\ mpc = "done") =>
        /\ ~HasLine(HasStartedLine("retrieve", StartupJobId("retrieve")))
        /\ \E i \in 1..(Len(output) - 1) :
               /\ Printed(i, "Job has finished: " \o StartupJobId("retrieve"))
               /\ output[i + 1] = "Mapping archive has been downloaded"

\* C22: when the retrieval job id is cached and DescribeJob reports it
\* completed at startup, neither "has started" nor "Job has finished" is
\* printed for it and "Mapping archive has been downloaded" is the only line
\* of the phase; in every phase "Job has finished" is printed for a job
\* exactly when the phase has announced it ("has started" or "is in
\* progress") and then seen it completed
C22_FinishedOnlyAfterWait ==
    /\ \A id \in JobIds :
           /\ HasLine("Job has finished: " \o id) =>
                  /\ \E phase \in {"inventory", "retrieve"} : Announced(phase, id)
                  /\ CompletedBefore(id, Len(glacierCalls) + 1)
           /\ \A phase \in {"inventory", "retrieve"} :
                  (Announced(phase, id) /\ PhaseOver(phase)) =>
                      HasLine("Job has finished: " \o id)
    /\ DoneAtStartup("retrieve") =>
           /\ ~Announced("retrieve", StartupJobId("retrieve"))
           /\ ~HasLine("Job has finished: " \o StartupJobId("retrieve"))
           /\ mpc = "done" =>
                  Printed(Len(output), "Mapping archive has been downloaded")

C22_Witness ==
    /\ DoneAtStartup("retrieve")
    /\ mpc = "done"
    /\ ~mappingEnv.fileExists
    /\ output = <<"Mapping archive has been downloaded">>
    /\ mappingFile.content = MappingContent

\* ------------------------------------------------------------------ C23
PhaseCalls(phase) ==
    SelectSeq(glacierCalls,
              LAMBDA c : \/ c.jobId \in {StartupJobId(phase), NewJobId(phase)}
                         \/ (c.op = "InitiateJob" /\ c.type = JobType(phase)))

CachedJobDone(phase) ==
    LET id == StartupJobId(phase)
    IN DoneAtStartup(phase) =>
        /\ \A line \in {HasStartedLine(phase, id), InProgressLine(phase, id),
                        NotFoundWarning(phase), "Job has finished: " \o id} :
               ~HasLine(line)
        /\ IsPrefixSeq(PhaseCalls(phase),
                       <<DescribeCall(id, "completed"), OutputCall(id)>>)
        /\ mpc = "done" =>
               PhaseCalls(phase) = <<DescribeCall(id, "completed"), OutputCall(id)>>
        /\ mpc # "done" => ENABLED NextMapping

\* C23: in either mapping phase, when the cached job of the phase is completed
\* at the first DescribeJob, the phase prints no line at all and only reads
\* the output of the job; with a cached, completed retrieval job the whole
\* output is the one line "Mapping archive has been downloaded" (behind the
\* prompt when the local file existed)
C23_CachedJobDoneSilent ==
    /\ CachedJobDone("inventory")
    /\ CachedJobDone("retrieve")
    /\ (DoneAtStartup("retrieve") /\ mpc = "done") =>
           output = IF mappingEnv.fileExists
                    THEN <<AfterPrompt("Mapping archive has been downloaded")>>
                    ELSE <<"Mapping archive has been downloaded">>

C23_Witness ==
    /\ DoneAtStartup("inventory")
    /\ mpc = "done"
    /\ output =
          <<"Job to retrieve mapping archive has started (can last up to 4 hours): retrieveMappingJobId",
            "Job has finished: retrieveMappingJobId",
            "Mapping archive has been downloaded">>

\* ------------------------------------------------------------------ C24
StartsWith(line, text) ==
    Len(line) >= Len(text) /\ SubSeq(line, 1, Len(text)) = text

Prompt ==
    "Local mapping archive already exists with last modification date <date>, retrieve a new mapping file ?[y/N]"

Prompted == output # <<>> /\ StartsWith(output[1], Prompt)

\* C24: when the local mapping file exists the user is prompted, and the
\* service is contacted if and only if the answer is y: on the default answer
\* there is no InitiateJob, DescribeJob or GetJobOutput call and the file is
\* kept as it is; on y the inventory and retrieval flow runs and the file is
\* replaced; without a local file there is no prompt
C24_PromptDecides ==
    /\ mpc # "start" => (Prompted <=> mappingEnv.fileExists)
    /\ \A i \in 2..Len(output) : ~StartsWith(output[i], Prompt)
    /\ (mappingEnv.fileExists /\ mappingEnv.answer # "y") =>
           /\ glacierCalls = <<>>
           /\ mappingFile = OldMappingFile
           /\ mpc \in {"start", "done"}
           /\ mpc = "done" => output = <<Prompt>>
    /\ (mappingEnv.fileExists /\ mappingEnv.answer = "y") =>
           /\ mpc # "done" => ENABLED NextMapping
           /\ mpc = "done" =>
                  /\ glacierCalls # <<>>
                  /\ glacierCalls[Len(glacierCalls)].op = "GetJobOutput"
                  /\ mappingFile = [exists |-> TRUE, content |-> MappingContent]
                  /\ mappingEnv.cache = EmptyCache =>
                         /\ NonPollCalls = FirstTimeCalls
                         /\ output = [FirstTimeLines EXCEPT
                                         ![1] = Prompt \o " " \o FirstTimeLines[1]]

C24_Witness ==
    /\ mappingEnv.fileExists
    /\ mappingEnv.answer = ""
    /\ mappingEnv.cache.retrievalJobId = "retrieveMappingJobId"
    /\ mpc = "done"
    /\ output = <<Prompt>>
    /\ glacierCalls = <<>>
    /\ mappingFile = OldMappingFile

\* ------------------------------------------------------------------ C25
\* the output of a retrieval job has been read
MappingLoaded ==
    \E k \in 1..Len(glacierCalls) :
        /\ glacierCalls[k].op = "GetJobOutput"
        /\ glacierCalls[k].jobId \in {"retrieveMappingJobId",
                                      mappingEnv.cache.retrievalJobId}

StartupFile ==
    IF mappingEnv.fileExists THEN OldMappingFile ELSE NoMappingFile

\* C25: when DownloadMappingArchive returns after reading the output of the
\* retrieval job, whatever the cache it started from, the mapping file holds
\* the bytes of that output and the RegionVaultCache is empty: no inventory
\* job id, no mapping archive, no retrieval job id; until then the file is the
\* one found at startup
C25_FileWrittenCacheCleared ==
    /\ MappingLoaded <=> (mpc = "done" /\ glacierCalls # <<>>)
    /\ MappingLoaded =>
           /\ mappingFile = [exists |-> TRUE, content |-> "hello !"]
           /\ regionVaultCache.inventoryJobId = ""
           /\ regionVaultCache.mappingArchive = NoMappingArchive
           /\ regionVaultCache.retrievalJobId = ""
           /\ glacierCalls[Len(glacierCalls)].op = "GetJobOutput"
           /\ CompletedBefore(glacierCalls[Len(glacierCalls)].jobId,
                              Len(glacierCalls))
    /\ ~MappingLoaded => mappingFile = StartupFile
    /\ (mpc # "done" /\ mpc # "start") => ENABLED NextMapping

C25_Witness ==
    /\ mpc = "done"
    /\ MappingLoaded
    /\ mappingEnv.cache.retrievalJobId = "retrieveMappingJobId"
    /\ mappingEnv.cache.mappingArchive.Size = 42
    /\ Polls("retrieveMappingJobId") > 0
    /\ regionVaultCache = EmptyCache
    /\ mappingFile.content = "hello !"

\* ------------------------------------------------------------------ C26
DescriptorCached ==
    /\ mappingEnv.cache.mappingArchive # NoMappingArchive
    /\ mappingEnv.cache.retrievalJobId # ""

InventoryJobIds == {"inventoryMappingJobId", "unknownInventoryMappingJobId"}

InventoryLines ==
    {"WARNING: Inventory job cahed for mapping vaul was not found"}
    \cup {HasStartedLine("inventory", id) : id \in InventoryJobIds}
    \cup {InProgressLine("inventory", id) : id \in InventoryJobIds}
    \cup {"Job has finished: " \o id : id \in InventoryJobIds}

\* C26: when the RegionVaultCache holds the descriptor of the mapping archive
\* and a retrieval job id, there is no InitiateJob of an inventory, no
\* DescribeJob or GetJobOutput of an inventory job and no inventory line, and
\* a retrieval job initiated again is for the ArchiveId of the cached
\* descriptor over 0-(Size-1) of its Size
C26_InventorySkipped ==
    DescriptorCached =>
        /\ \A k \in 1..Len(glacierCalls) :
               LET c == glacierCalls[k] IN
               /\ c.jobId \notin InventoryJobIds
               /\ c.op = "InitiateJob" =>
                      /\ c.type = "archive-retrieval"
                      /\ c.archiveId = mappingEnv.cache.mappingArchive.ArchiveId
                      /\ c.range = IF mappingEnv.cache.mappingArchive.Size = 42
                                   THEN "0-41" ELSE "0-0"
                      /\ NotFoundAtStartup("retrieve")
        /\ \A line \in InventoryLines : ~HasLine(line)
        /\ regionVaultCache.inventoryJobId = ""
        /\ (NotFoundAtStartup("retrieve") /\ mpc = "done") =>
               \E k \in 1..Len(glacierCalls) : glacierCalls[k].op = "InitiateJob"
        /\ (mpc # "done" /\ mpc # "start") => ENABLED NextMapping

C26_Witness ==
    /\ DescriptorCached
    /\ mappingEnv.cache.mappingArchive.Size = 42
    /\ mappingEnv.archiveList[1].Size = 1
    /\ NotFoundAtStartup("retrieve")
    /\ mpc = "done"
    /\ \E k \in 1..Len(glacierCalls) :
           /\ glacierCalls[k].op = "InitiateJob"
           /\ glacierCalls[k].range = "0-41"
    /\ output =
          <<"WARNING: Retrieve mapping archive job cached was not found",
            "Job to retrieve mapping archive has started (can last up to 4 hours): retrieveMappingJobId",
            "Job has finished: retrieveMappingJobId",
            "Mapping archive has been downloaded">>

\* ------------------------------------------------------------------ C27
DescribedJobIds == {d.jobId : d \in describeJobCalls}

\* the stale jobs DescribeJob has been asked about
StaleDescribed ==
    {e \in {emitted[i] : i \in 1..Len(emitted)} :
        e.jobId \in staleJobs /\ e.jobId \in DescribedJobIds}

InitiatedFor(e) ==
    {i \in 1..Len(initiateJobCalls) :
        /\ initiateJobCalls[i].archiveId = e.archiveId
        /\ initiateJobCalls[i].lo = e.lo
        /\ initiateJobCalls[i].hi = e.hi}

\* C27: when DescribeJob does not find the job of a part, the JobCache entry
\* of its archive and range is replaced by a job initiated for the same
\* archive and range, polling goes on with the new job id, the stale job id is
\* never used for GetJobOutput, and the part is downloaded all the same
C27_StaleJobReinitiated ==
    /\ \A i \in 1..Len(getJobOutputCalls) :
           getJobOutputCalls[i].jobId \notin staleJobs
    /\ \A e \in StaleDescribed :
           /\ \A c \in jobCache : c.jobId # e.jobId
           /\ Cardinality(InitiatedFor(e)) = 1
           /\ \A i \in InitiatedFor(e) :
                  /\ initiateJobCalls[i].found
                  /\ [archiveId |-> e.archiveId, lo |-> e.lo, hi |-> e.hi,
                      jobId |-> [seq |-> i, cached |-> FALSE]] \in jobCache
    /\ \A k \in 1..Len(archivePartRetrieveList) :
           LET part == archivePartRetrieveList[k] IN
           /\ part.jobId \in staleJobs =>
                  /\ ~part.ready
                  /\ part.jobId \notin DescribedJobIds
           /\ part.jobId \notin staleJobs =>
                  \E c \in jobCache :
                      /\ c.jobId = part.jobId
                      /\ c.archiveId = part.archiveId
                      /\ c.lo = part.lo
                      /\ c.hi = part.hi
    /\ pc = "done" =>
           \A i \in 1..Len(file_info_tb) :
               file_info_tb[i].archiveId \notin unavailable =>
                   /\ dest[i].exists
                   /\ Bytes(dest[i].content) =
                          IF file_info_tb[i].fileSize = 0 THEN <<>>
                          ELSE <<(<<0, file_info_tb[i].fileSize - 1>>)>>
    /\ pc # "done" => ENABLED Next

\* a run that has found a cached job stale, initiated it again and downloaded
\* the part from the new job
C27_Witness ==
    /\ pc = "done"
    /\ \E e \in StaleDescribed :
           /\ e.cached
           /\ \E i \in 1..Len(getJobOutputCalls) :
                  /\ getJobOutputCalls[i].archiveId = e.archiveId
                  /\ ~getJobOutputCalls[i].jobId.cached
                  /\ getJobOutputCalls[i].jobId.seq \in InitiatedFor(e)
           /\ \A i \in 1..Len(file_info_tb) :
                  file_info_tb[i].archiveId = e.archiveId => dest[i].exists
    /\ Len(emitted) > 1

\* ------------------------------------------------------------------ C28
EmittedJobs == [i \in 1..Len(emitted) |-> emitted[i].jobId]

\* the place of a job in the order of emission
EmitIndex(jobId) == CHOOSE i \in 1..Len(emitted) : emitted[i].jobId = jobId

WasEmitted(jobId) == \E i \in 1..Len(emitted) : emitted[i].jobId = jobId

PartsEmittedFor(a) == {i \in 1..Len(emitted) : emitted[i].archiveId = a}

Materialized(a) ==
    \A i \in 1..Len(file_info_tb) :
        file_info_tb[i].archiveId = a => dest[i].exists

\* C28: parts are downloaded in the order the planner emitted them: the
\* GetJobOutput calls follow the order of emission, a part is left only when
\* its last byte has been read, the parts waiting are untouched, and of two
\* archives with parts the one emitted first is materialized first
C28_DownloadInEmissionOrder ==
    /\ \A i \in 1..Len(getJobOutputCalls) : WasEmitted(getJobOutputCalls[i].jobId)
    /\ \A i \in 1..(Len(getJobOutputCalls) - 1) :
           LET g == getJobOutputCalls[i]
               h == getJobOutputCalls[i + 1]
           IN \/ g.jobId = h.jobId
              \/ /\ EmitIndex(h.jobId) = EmitIndex(g.jobId) + 1
                 /\ g.hi = emitted[EmitIndex(g.jobId)].hi
                            - emitted[EmitIndex(g.jobId)].lo
    /\ getJobOutputCalls # <<>> => EmitIndex(getJobOutputCalls[1].jobId) = 1
    /\ [k \in 1..Len(archivePartRetrieveList) |-> archivePartRetrieveList[k].jobId]
          = SubSeq(EmittedJobs,
                   Len(emitted) - Len(archivePartRetrieveList) + 1, Len(emitted))
    /\ \A k \in 2..Len(archivePartRetrieveList) :
           archivePartRetrieveList[k].nextByteIndexToDownload = 0
    /\ \A a, b \in ArchiveIds :
           (/\ PartsEmittedFor(a) # {}
            /\ PartsEmittedFor(b) # {}
            /\ \A i \in PartsEmittedFor(a) : \A j \in PartsEmittedFor(b) : i < j
            /\ Materialized(b)) => Materialized(a)
    /\ \A a, b \in ArchiveIds :
           (a # b /\ PartsEmittedFor(a) # {} /\ PartsEmittedFor(b) # {}) =>
               \/ \A i \in PartsEmittedFor(a) : \A j \in PartsEmittedFor(b) : i < j
               \/ \A i \in PartsEmittedFor(a) : \A j \in PartsEmittedFor(b) : j <= i

\* the two archives of the multipart test are over: five parts, the second
\* archive read only after the last byte of the first
C28_Witness ==
    /\ pc = "done"
    /\ file_info_tb = <<[archiveId |-> "archiveId1", fileSize |-> 4194304],
                        [archiveId |-> "archiveId2", fileSize |-> 2097152]>>
    /\ MultipartContext
    /\ NoStartupFiles
    /\ Len(emitted) = 5
    /\ Materialized("archiveId1")
    /\ Materialized("archiveId2")
    /\ \E i \in 1..(Len(getJobOutputCalls) - 1) :
           /\ getJobOutputCalls[i].archiveId = "archiveId1"
           /\ getJobOutputCalls[i + 1].archiveId = "archiveId2"

\* ------------------------------------------------------------------ C29
OutputCallsOf(jobId) ==
    SelectSeq(getJobOutputCalls, LAMBDA g : g.jobId = jobId)

StillListed(jobId) ==
    \E k \in 1..Len(archivePartRetrieveList) :
        archivePartRetrieveList[k].jobId = jobId

\* C29: the GetJobOutput ranges of a job count from the start of the range of
\* the job, not of the archive: the first starts at 0, each next one starts
\* right after the one before, and when the part is downloaded they cover
\* 0 to sizeBytes-1 of the part; the job initiated for 1048576-1048580 is read
\* with range 0-4
C29_OutputRangesRelative ==
    /\ \A i \in 1..Len(emitted) :
           LET e == emitted[i]
               cs == OutputCallsOf(e.jobId)
               sizeBytes == e.hi - e.lo + 1
           IN /\ cs # <<>> => cs[1].lo = 0
              /\ \A j \in 1..Len(cs) :
                     /\ cs[j].lo <= cs[j].hi
                     /\ cs[j].hi <= sizeBytes - 1
                     /\ cs[j].archiveId = e.archiveId
              /\ \A j \in 1..(Len(cs) - 1) : cs[j + 1].lo = cs[j].hi + 1
              /\ (cs # <<>> /\ ~StillListed(e.jobId)) =>
                     cs[Len(cs)].hi = sizeBytes - 1
              /\ (cs # <<>> /\ StillListed(e.jobId)) =>
                     cs[Len(cs)].hi < sizeBytes - 1
              /\ pc = "done" => cs # <<>>
    /\ AlreadyStartedScenario =>
           /\ \A i \in 1..Len(emitted) :
                  emitted[i].lo = 1048576 /\ emitted[i].hi = 1048580
           /\ \A i \in 1..Len(getJobOutputCalls) :
                  getJobOutputCalls[i].lo = 0 /\ getJobOutputCalls[i].hi = 4

\* a part that does not start at the start of its archive has been read in
\* two sub-ranges
C29_Witness ==
    /\ pc = "done"
    /\ \E i \in 1..Len(emitted) :
           /\ emitted[i].lo = 2097152
           /\ emitted[i].hi = 3145727
           /\ ~emitted[i].cached
           /\ Len(OutputCallsOf(emitted[i].jobId)) = 2
           /\ OutputCallsOf(emitted[i].jobId)[1].lo = 0
           /\ OutputCallsOf(emitted[i].jobId)[2].hi = 1048575

\* ------------------------------------------------------------------ C30
Window == speedInBytesBySec * 300

Downloaded == SumOfSizes(chunks)

\* the InitiateJob calls that have started a job
JobsInitiated == Len(SelectSeq(initiateJobCalls, LAMBDA c : c.found))

OutputRangesOf(log) == [i \in 1..Len(log) |-> <<log[i].lo, log[i].hi>>]

MultipartOutputRanges ==
    <<(<<0, 1048799>>), (<<1048800, 2097151>>), (<<0, 447>>),
      (<<448, 1048575>>), (<<0, 671>>), (<<672, 1048575>>)>>

\* C30 as stated: between two consecutive initiations one window of
\* speedInBytesBySec x 300 bytes is downloaded
C30_OneWindowBetweenInitiations ==
    JobsInitiated > 0 => Downloaded >= (JobsInitiated - 1) * Window

\* a step of the pipeline: jobs are initiated in the planning stage only, a
\* window of speedInBytesBySec x 300 bytes opens when the planner can do no
\* more, every read takes what is left of the window or of the part, and the
\* planner resumes when the window is used up or nothing is left to download
PipelineStep ==
    /\ initiateJobCalls' # initiateJobCalls =>
           /\ pc = "plan" /\ pc' = "plan"
           /\ getJobOutputCalls' = getJobOutputCalls
    /\ (pc = "plan" /\ pc' = "download") =>
           /\ windowLeft' = Window
           /\ ~CanRetrieve
    /\ getJobOutputCalls' # getJobOutputCalls =>
           /\ pc = "download" /\ pc' = "download"
           /\ Len(getJobOutputCalls') = Len(getJobOutputCalls) + 1
           /\ LET g == getJobOutputCalls'[Len(getJobOutputCalls')]
                  part == archivePartRetrieveList[1]
              IN /\ g.jobId = part.jobId
                 /\ windowLeft' = windowLeft - (g.hi - g.lo + 1)
                 /\ windowLeft' >= 0
                 /\ windowLeft' > 0 => g.hi = part.size - 1
                 /\ initiateJobCalls' = initiateJobCalls
    /\ (pc = "download" /\ pc' = "plan") =>
           windowLeft = 0 \/ archivePartRetrieveList = <<>>

\* the multipart test: the second job is initiated when 1048800 bytes of the
\* first are downloaded, the third when the window that ends the first job
\* has taken 448 bytes of the second
PipelinedMultipart ==
    MultipartScenario =>
        /\ IsPrefixSeq(OutputRangesOf(getJobOutputCalls), MultipartOutputRanges)
        /\ Len(initiateJobCalls) <= 1 => Len(getJobOutputCalls) <= 1
        /\ Len(initiateJobCalls) = 2 =>
               Len(getJobOutputCalls) >= 1 /\ Len(getJobOutputCalls) <= 3
        /\ Len(initiateJobCalls) = 3 => Len(getJobOutputCalls) >= 3

\* C30: initiation and download are pipelined: jobs are initiated only by the
\* planner, which may initiate a further part while an earlier one is partly
\* downloaded; each time the planner can initiate no more, the download stage
\* transfers one window of at most speedInBytesBySec x 300 bytes, the whole
\* window unless nothing is left to download, continuing into the next part
\* when a part ends inside the window; at 3496 B/s the window is 1048800
\* bytes, the last 1048352 bytes of job 1 and the first 448 bytes of job 2
C30_WindowPipelining == []PipelinedMultipart /\ [][PipelineStep]_vars

\* the second window of the multipart test is over: it has ended job 1 and
\* taken 448 bytes of job 2, and job 3 is not initiated yet
C30_Witness ==
    /\ MultipartScenario
    /\ pc = "plan"
    /\ Len(initiateJobCalls) = 2
    /\ OutputRangesOf(getJobOutputCalls) =
          <<(<<0, 1048799>>), (<<1048800, 2097151>>), (<<0, 447>>)>>
    /\ Len(archivePartRetrieveList) = 1
    /\ archivePartRetrieveList[1].nextByteIndexToDownload = 448

\* ------------------------------------------------------------------ C31
MaxLiveRows == 2
MaxLiveStartupFiles == 1

\* the contexts of the tests, the slowest speed whose budget holds 1 MiB, and
\* the speed just below it
LiveContexts ==
    {[speed |-> 3496, maxSize |-> 2 * S_1MB, listMax |-> 10],
     [speed |-> 3496, maxSize |-> S_1MB, listMax |-> 1]}
    \cup {[speed |-> s, maxSize |-> s * RetrievalLatencySec, listMax |-> 10] :
            s \in {72, 73}}

\* the rows: an archive of one part, one of several parts, a second archive
\* and an empty file
LiveRowChoices ==
    {r \in RowChoices : r.fileSize \in {0, 1048581, 2097152, 4194304}}

InitLive ==
    /\ mapping \in UNION {[1..n -> LiveRowChoices] : n \in 1..MaxLiveRows}
    /\ filters = <<>>
    /\ file_info_tb = FilteredRows(mapping, filters)
    /\ output = <<ToRestoreLine(file_info_tb)>>
    /\ \E c \in LiveContexts :
        /\ speedInBytesBySec = c.speed
        /\ archivesRetrievalMaxSize = c.maxSize
        /\ archivePartRetrievalListMaxSize = c.listMax
    /\ TotalSize(file_info_tb) <= MaxWindows * speedInBytesBySec * DownloadWindowSec
    /\ stagingAtStartup \in [ArchiveIds -> StagingLengths \cup {-1} \cup UNION {ArchiveSizes[a] : a \in ArchiveIds}]
    /\ \A a \in ArchiveIds : stagingAtStartup[a] \in StagingChoices(file_info_tb, a)
    /\ staging = [a \in AllArchiveIds |->
                    IF a \in ArchiveIds THEN StagedFile(stagingAtStartup[a])
                    ELSE NoFile]
    /\ \E cached \in SUBSET CacheCandidates(file_info_tb) :
        /\ Cardinality(cached)
             + Cardinality({a \in ArchiveIds : stagingAtStartup[a] >= 0})
                <= MaxLiveStartupFiles
        /\ jobCache = {[archiveId |-> e.archiveId, lo |-> e.lo, hi |-> e.hi,
                        jobId |-> [seq |-> 0, cached |-> TRUE, of |-> e]] :
                            e \in cached}
    /\ staleJobs \in {{}, {e.jobId : e \in jobCache}}
    /\ dest = [i \in 1..Len(file_info_tb) |-> NoFile]
    /\ archivesRetrievalSize = 0
    /\ archivePartRetrieveList = <<>>
    /\ archiveRows = 1
    /\ archiveRetrieve = NoArchive
    /\ unavailable = {}
    /\ initiateJobCalls = <<>>
    /\ describeJobCalls = {}
    /\ getJobOutputCalls = <<>>
    /\ emitted = <<>>
    /\ chunks = <<>>
    /\ windowLeft = 0
    /\ previousRun = NoRun
    /\ pc = "plan"
    /\ MappingDownloaded
    /\ VaultSelected

\* the loop keeps running, and a job that is polled again and again is
\* completed in the end: a poll that finds it in progress changes nothing
SpecLive == InitLive /\ [][Next]_vars /\ WF_vars(Next)

\* every row is materialized whole, or its archive was not found
AllSettled ==
    \A i \in 1..Len(file_info_tb) :
        \/ file_info_tb[i].archiveId \in unavailable
        \/ /\ dest[i].exists
           /\ IsArchivePrefix(dest[i].content, file_info_tb[i].fileSize)

Terminated == pc = "done" /\ AllSettled

BudgetHoldsOnePart == archivesRetrievalMaxSize >= S_1MB

BytesBelow(a, l) ==
    LET cs == SelectArchive(chunks, a)
        S[i \in 0..Len(cs)] ==
            IF i = 0 THEN 0
            ELSE S[i - 1]
                 + Max(0, Min(l, cs[i].offset + cs[i].size) - cs[i].offset)
    IN S[Len(cs)]

\* the first byte index an InitiateJob or a GetJobOutput of this run asked
\* for, of archive a; the size of the archive if none did
FirstRequested(a) ==
    LET asked == {initiateJobCalls[i].lo :
                    i \in {j \in 1..Len(initiateJobCalls) :
                              initiateJobCalls[j].archiveId = a}}
                 \cup {chunks[i].offset :
                    i \in {j \in 1..Len(chunks) : chunks[j].archiveId = a}}
    IN IF asked = {} THEN DeclaredSize(a)
       ELSE CHOOSE x \in asked : \A y \in asked : x <= y

\* C32 as stated: no byte the staging file held at restart is asked for again
C32_NoStagedByteRequested ==
    \A a \in ArchiveIds :
        stagingAtStartup[a] > 0 =>
            /\ FirstRequested(a) >= stagingAtStartup[a]
            /\ BytesBelow(a, stagingAtStartup[a]) = 0

\* C32: at a restart no byte below the last multiple of 1 MiB the staging
\* file reaches is asked for again, by InitiateJob or by GetJobOutput; the
\* bytes the staging file holds past that multiple, fewer than 1 MiB, are
\* downloaded a second time; a staging file that holds the whole archive
\* asks for nothing
C32_NoByteBelowBoundaryTwice ==
    \A a \in ArchiveIds :
        stagingAtStartup[a] > 0 =>
            LET l == stagingAtStartup[a]
                n == DeclaredSize(a)
                boundary == (l \div 1048576) * 1048576
            IN IF l = n
               THEN /\ FirstRequested(a) = n
                    /\ BytesBelow(a, n) = 0
               ELSE /\ FirstRequested(a) >= boundary
                    /\ BytesBelow(a, boundary) = 0
                    /\ BytesBelow(a, l) <= l - boundary
                    /\ l - boundary < 1048576
                    /\ (pc = "done" /\ a \notin unavailable) =>
                          /\ FirstRequested(a) = boundary
                          /\ BytesBelow(a, l) = l - boundary

\* the run of the test is over: of 1048579 bytes staged the first 1048576 were
\* kept, and the job initiated for 1048576-1048580 was read from 0 to 4
C32_Witness ==
    /\ pc = "done"
    /\ file_info_tb = <<[archiveId |-> "archiveId1", fileSize |-> 1048581]>>
    /\ stagingAtStartup["archiveId1"] = 1048579
    /\ RangesOf(initiateJobCalls) = <<Range("archiveId1", 1048576, 1048580)>>
    /\ Len(getJobOutputCalls) = 1
    /\ getJobOutputCalls[1].lo = 0 /\ getJobOutputCalls[1].hi = 4
    /\ BytesBelow("archiveId1", 1048579) = 3
    /\ dest[1].exists

\* ------------------------------------------------------------------ C33
\* the length of the staging file of an archive
bytesMaterialized(a) == ContentLen(staging[a].content)

\* C33: the staging file of an archive is never longer than the size declared
\* for the archive: not when it is found at startup, not after it has been
\* cut at the index retrieval resumes from, not after a chunk, which is
\* written at the end of the file and ends within the archive
C33_MaterializedWithinDeclared ==
    /\ \A a \in ArchiveIds :
          staging[a].exists =>
              /\ 0 <= bytesMaterialized(a)
              /\ bytesMaterialized(a) <= DeclaredSize(a)
              /\ (Loaded(a) /\ stagingAtStartup[a] >= 0
                    /\ SelectArchive(chunks, a) = <<>>) =>
                        bytesMaterialized(a) <= stagingAtStartup[a]
    /\ \A i \in 1..Len(chunks) :
          /\ chunks[i].size > 0
          /\ chunks[i].at >= 0
          /\ chunks[i].at = chunks[i].offset
          /\ chunks[i].at + chunks[i].size <= DeclaredSize(chunks[i].archiveId)
    /\ archiveRetrieve # NoArchive =>
          /\ 0 <= archiveRetrieve.nextByteIndexToRetrieve
          /\ archiveRetrieve.nextByteIndexToRetrieve < archiveRetrieve.size

\* an archive of 4 MiB found with 1048579 bytes staged: cut to 1 MiB at the
\* probe, it holds 1 MiB and one window after the first chunk
C33_Witness ==
    /\ stagingAtStartup["archiveId1"] = 1048579
    /\ DeclaredSize("archiveId1") = 4194304
    /\ speedInBytesBySec = 3496
    /\ Len(SelectArchive(chunks, "archiveId1")) = 1
    /\ staging["archiveId1"].exists
    /\ bytesMaterialized("archiveId1") = 1048576 + 1048800

\* ------------------------------------------------------------------ C35
\* the last call of print logged after the step
LastPrint == printCalls'[Len(printCalls')]

\* the writer variable InitOutputs has set for the level
ConfiguredWriter(level) ==
    CASE level = Verbose -> writers.verboseWriter
      [] level = OptionalInfo -> writers.optionalInfoWriter
      [] level = Info -> writers.infoWriter
      [] level = Warning -> writers.warningWriter
      [] level = Error -> writers.errorWriter

\* one call of print: nothing is written for a verbose message without
\* VerboseFlag and for an optional one without OptionalInfoFlag; any other
\* message is appended to the writer of its own level, and to no other, with
\* "WARNING: " before a warning, "ERROR: " before an error and nothing
\* before the other levels; nothing is written but by print
PrintStep ==
    /\ printCalls' # printCalls =>
        /\ printCalls' = Append(printCalls, LastPrint)
        /\ IF \/ LastPrint.level = Verbose /\ ~VerboseFlag
              \/ LastPrint.level = OptionalInfo /\ ~OptionalInfoFlag
           THEN written' = written /\ opc' = opc
           ELSE IF ConfiguredWriter(LastPrint.level) = NilWriter
           THEN written' = written /\ opc' = "panic"
           ELSE /\ opc' = opc
                /\ written' =
                     [written EXCEPT
                        ![ConfiguredWriter(LastPrint.level)] =
                            Append(@,
                                CASE LastPrint.level = Warning ->
                                        "WARNING: " \o LastPrint.toPrint
                                  [] LastPrint.level = Error ->
                                        "ERROR: " \o LastPrint.toPrint
                                  [] OTHER -> LastPrint.toPrint)]
    /\ written' # written => printCalls' # printCalls

\* C35: print writes a Verbose message only when VerboseFlag is true and an
\* OptionalInfo message only when OptionalInfoFlag is true; Info, Warning and
\* Error messages are always written; each message goes to the writer
\* InitOutputs has set for its level, a warning after "WARNING: ", an error
\* after "ERROR: ", the other levels as they are
C35_PrintByLevel == [][PrintStep]_vars

\* with a writer of its own for each level and no VerboseFlag, a verbose
\* message was dropped and a warning went, prefixed, to the writer of warnings
C35_Witness ==
    /\ writers = InitOutputsWith("verbose.log", "optional.log", "os.Stdout",
                                 "buffer", "os.Stderr")
    /\ VerboseFlag = FALSE
    /\ printCalls = <<[level |-> Verbose, toPrint |-> "text"],
                      [level |-> Warning, toPrint |-> "text"]>>
    /\ written = [NothingWritten EXCEPT !["buffer"] = <<"WARNING: text">>]

\* ------------------------------------------------------------------ C34
\* the region and the name of the k-th vault of the list
VaultAt(k) == <<synologyCoupleVaults[k].Region, synologyCoupleVaults[k].Name>>

Listed(pair) == \E k \in 1..Len(synologyCoupleVaults) : VaultAt(k) = pair

\* C34: selectRegionVaultFromSynologyVaults returns two empty strings if and
\* only if the list is empty; the region and the name of the one vault of a
\* list of one, without a query; for a longer list the entry of the last
\* query, which is the region and the name of a vault of the list, every
\* entry before it being of no vault of the list; an entry that is of no
\* vault leaves the function in its loop
C34_SelectsListedVault ==
    /\ spc = "done" =>
        /\ (selected = <<"", "">>) <=> (synologyCoupleVaults = <<>>)
        /\ Len(synologyCoupleVaults) = 1 => selected = VaultAt(1)
        /\ Len(synologyCoupleVaults) > 1 =>
              /\ queries # <<>>
              /\ selected = queries[Len(queries)]
        /\ selected # <<"", "">> => Listed(selected)
    /\ Len(synologyCoupleVaults) <= 1 => queries = <<>>
    /\ \A k \in 1..(Len(queries) - 1) : ~Listed(queries[k])
    /\ (queries # <<>> /\ ~Listed(queries[Len(queries)])) =>
          /\ spc = "query"
          /\ synologyCoupleVaultToUse = 0
          /\ selected = <<>>
    /\ spc \in {"start", "query"} => selected = <<>>

\* of two vaults that share neither region nor name, the user first entered
\* the region of one with the name of the other, then the second vault
C34_Witness ==
    /\ spc = "done"
    /\ synologyCoupleVaults = <<[Region |-> "region1", Name |-> "vault1"],
                                [Region |-> "region2", Name |-> "vault2"]>>
    /\ queries = <<(<<"region1", "vault2">>), (<<"region2", "vault2">>)>>
    /\ selected = <<"region2", "vault2">>

====
